---- MODULE Spec2Model ----
(***************************************************************************)
(* Model of the DSPy bridge (priv/python/dspy_bridge.py): the main loop    *)
(* over length-prefixed frames on stdin/stdout, the command dispatcher     *)
(* DSPyBridge.handle_command and the program registry it drives.           *)
(*                                                                         *)
(* One loop iteration is two steps: ReadFrame (read_message, the           *)
(* validation of the envelope and bridge.handle_command, run to            *)
(* completion) and WriteResponse (write_message).  The external            *)
(* collaborators (the dspy / Gemini executors, dspy.LM) are outcomes of a  *)
(* nondeterministic choice: they return or they raise.                     *)
(***************************************************************************)
EXTENDS Integers, Sequences, FiniteSets, TLC

\* ------------------------------------------------------------------ bounds
\* Number of read_message calls explored; also the clock time.time() reads.
MaxFrames == 3

\* ------------------------------------------------------------ input values
None == "None"                    \* Python None / a key absent from a dict
BadStr == "\\ud800"               \* a str holding a lone surrogate: JSON
                                  \* decodes it, UTF-8 cannot encode it
ProgIds == {"p1", "p2"}
RequestIds == {1, 2}
SessionIds == {None, "anonymous", "s1"}
\* Signature definitions, by how create_program treats them:
\*   "valid"        inputs and outputs present, _create_signature_class returns
\*   "uncompilable" inputs and outputs present, _create_signature_class raises
\*   "empty"        inputs or outputs missing or empty
SigDefs == {"valid", "uncompilable", "empty"}

\* Module-level import flags of dspy_bridge.py, for a deployment in which the
\* dspy and google.generativeai imports succeed.
DSPY_AVAILABLE == TRUE
GEMINI_AVAILABLE == TRUE

VARIABLES
    mode,                      \* cmd_args.mode, fixed at start
    VARIABLE_AWARE_AVAILABLE,  \* did the snakepit_bridge import succeed
    GEMINI_API_KEY,            \* is os.environ['GEMINI_API_KEY'] set
    pc,                        \* position of main(): read, respond, done
    stdin,                     \* "open" or "eof"
    stdout,                    \* "open" or "broken" (peer closed its read end)
    clock,                     \* time.time(); one tick per read_message call
    exit_reason,               \* what ended the loop, "running" before
    request,                   \* the envelope being served
    response,                  \* the envelope handed to write_message
    bridge,                    \* the DSPyBridge object
    accepted,                  \* number of envelopes accepted for dispatch
    written,                   \* number of frames written to stdout
    last_written,              \* the last frame written to stdout
    deleted,                   \* history: ids removed by a successful
                               \* delete_program and not created since
    wire,                      \* bytes written to the stream, not yet read
    rstate,                    \* position of read_message: header, payload,
                               \* returned
    length_bytes,              \* read_message's length_bytes
    data,                      \* read_message's data
    result,                    \* read_message's return value: <<>> for
                               \* None, <<m>> for the parsed message m
    sent,                      \* history: messages given to write_message
    got,                       \* history: messages read_message returned
    raw,                       \* history: were bytes written to the stream
                               \* by other means than write_message
    signalled,                 \* has SIGTERM or SIGINT been delivered
    signature_cache,           \* DSPyBridge.signature_cache
    class_count,               \* number of classes type() has created
    ret,                       \* the value the last call on the signature
                               \* compiler, the dynamic executor or the
                               \* Gemini parser returned
    _MODULE_STORAGE,           \* dspex_adapters.dspy_grpc._MODULE_STORAGE
    reply,                     \* the dict the last adapter tool returned
    session_context,           \* the SessionContext of a variable-aware
                               \* program: its variables, and whether
                               \* get_variable raises
    program_info,              \* the record execute_program resolved
    program,                   \* program_info['program']: its attributes
                               \* and variable bindings
    updates,                   \* what the last sync_variables_sync returned
    invoked                    \* history: the calls of the program, with the
                               \* attributes it had when called

vars == <<mode, VARIABLE_AWARE_AVAILABLE, GEMINI_API_KEY, pc, stdin, stdout,
          clock, exit_reason, request, response, bridge, accepted, written,
          last_written, deleted, wire, rstate, length_bytes, data, result,
          sent, got, raw, signalled, signature_cache, class_count, ret,
          _MODULE_STORAGE, reply, session_context, program_info, program,
          updates, invoked>>

\* The byte-level state of the framed channel.
channel == <<wire, rstate, length_bytes, data, result, sent, got, raw>>

env == <<mode, VARIABLE_AWARE_AVAILABLE, GEMINI_API_KEY>>

\* The state of the signature compiler and of its callers' last result.
compiler == <<signature_cache, class_count, ret>>

\* The state of the gRPC adapter.
adapter == <<_MODULE_STORAGE, reply>>

\* The state of a variable-aware program and of its session context.
synced == <<session_context, program_info, program, updates, invoked>>

\* ----------------------------------------------------------------- helpers
Truthy(v) == v # None /\ v # ""

NoArgs ==
    [mapping |-> TRUE, id |-> None, program_id |-> None, session_id |-> None,
     variable_aware |-> FALSE, signature |-> "empty", program_data |-> None,
     model |-> None, api_key |-> None, provider |-> None,
     use_dynamic_signature |-> TRUE]

\* args that is not a JSON object (a list, a number, null): every args.get
\* raises AttributeError.
NonMappingArgs == [NoArgs EXCEPT !.mapping = FALSE]

NoRequest == [id |-> 1, command |-> None, args |-> NoArgs]
NoResponse ==
    [id |-> 1, success |-> FALSE, value |-> None, error_in_result |-> FALSE,
     embeds |-> None, report |-> <<>>]
NoFrame == [id |-> 1, success |-> FALSE]

\* ret before any call.
NoReturn ==
    [op |-> "none", status |-> "none", class |-> 0, field_mapping |-> <<>>,
     slots |-> <<>>, kwargs |-> {}, outputs |-> <<>>, parsed |-> <<>>]

\* A handler's outcome, leaving the bridge b: it returned a result whose
\* status is v, it returned the dict {"error": e}, or it raised e.
\* No adapter tool has returned yet.
NoReply == [tool |-> None, success |-> FALSE, name |-> <<>>, count |-> 0,
            names |-> {}]

\* No program has been created, and no executable.
NoProgram == [created |-> FALSE, variable_aware |-> FALSE, execution_count |-> 0]
NoModule == [attrs |-> <<>>, bindings |-> <<>>, has_sync |-> FALSE]

\* No call of the program yet.
NoCall == [count |-> 0, attrs |-> <<>>]

Ret(b, v) == [kind |-> "return", value |-> v, bridge |-> b, report |-> <<>>]
RetError(b, e) ==
    [kind |-> "return_error", value |-> e, bridge |-> b, report |-> <<>>]
Raise(b, e) == [kind |-> "raise", value |-> e, bridge |-> b, report |-> <<>>]
\* It returned a result with status v and the counts in report.
RetReport(b, v, counts) ==
    [kind |-> "return", value |-> v, bridge |-> b, report |-> counts]
AttributeError == "'list' object has no attribute 'get'"

\* hasattr(self, 'programs') is bridge.has_programs; the dict is bridge.programs.
EnsurePrograms(b) == [b EXCEPT !.has_programs = TRUE]
HasProgram(b, p) == b.has_programs /\ p \in DOMAIN b.programs

Put(f, k, v) == [x \in (DOMAIN f) \cup {k} |-> IF x = k THEN v ELSE f[x]]
Del(f, k) == [x \in (DOMAIN f) \ {k} |-> f[x]]
EmptyMap == [x \in {} |-> None]

\* ------------------------------------------------------- language model
Provider(args) == IF args.provider = None THEN "google" ELSE args.provider
StartsWithGemini(model) == model = "gemini-1.5-flash"

\* DSPyBridge.configure_lm: every failure is caught inside, counted in
\* error_count and returned as {"error": ...}; dspy.LM either accepts one of
\* the three model-name formats or rejects them all.
configure_lm(b, args) ==
    LET counted == [b EXCEPT !.error_count = @ + 1] IN
    IF ~args.mapping THEN {RetError(counted, AttributeError)}
    ELSE IF ~Truthy(args.model) THEN {RetError(counted, "Model name is required")}
    ELSE IF ~Truthy(args.api_key) THEN {RetError(counted, "API key is required")}
    ELSE IF Provider(args) = "google" /\ StartsWithGemini(args.model)
    THEN IF ~DSPY_AVAILABLE
         THEN {RetError(counted, "No module named 'dspy'")}
         ELSE {Ret([b EXCEPT !.lm_configured = TRUE], "configured"),
               RetError(counted, "Failed to configure Gemini model with any format")}
    ELSE {RetError(counted, "Unsupported provider/model combination")}

\* The implicit configuration execute_program attempts from GEMINI_API_KEY.
DefaultLmArgs ==
    [NoArgs EXCEPT !.model = "gemini-1.5-flash", !.api_key = "env-key",
                   !.provider = "google"]

\* ----------------------------------------------- signature definitions
\* Field names as sequences of characters, signature definitions, and
\* DSPyBridge._create_signature_class on them.
Letters == {"a", "b", "d", "e", "f", "i", "l", "o", "x", "z", "A", "B"}
Digits == {"0", "1", "2", "3", "4", "5", "6", "7", "8", "9"}
\* What \w matches; every other character is matched by \W.
IsWord(c) == c \in Letters \cup Digits \cup {"_"}

\* str(n) for the field counts reached here.
Str(n) == <<(<<"0", "1", "2", "3", "4", "5", "6", "7", "8", "9">>)[n + 1]>>

\* re.sub(r'\W|^(?=\d)', '_', raw_field_name): every non-word character becomes an
\* underscore, and an underscore is put in front of a leading digit.
re_sub(raw_field_name) ==
    LET replaced == [i \in 1..Len(raw_field_name) |-> IF IsWord(raw_field_name[i]) THEN raw_field_name[i] ELSE "_"]
    IN IF raw_field_name # <<>> /\ raw_field_name[1] \in Digits THEN <<"_">> \o replaced ELSE replaced

\* FieldName without the fallback to field_<n>.
FieldName_NoFallback(raw_field_name, n) == re_sub(raw_field_name)

\* The sanitized name of a field, n being len(field_mapping) at that point.
FieldName(raw_field_name, n) ==
    IF re_sub(raw_field_name) = <<>> \/ re_sub(raw_field_name)[1] = "_"
    THEN <<"f", "i", "e", "l", "d", "_">> \o Str(n)
    ELSE re_sub(raw_field_name)

\* The field names used in the definitions below.
N_a == <<"a">>
N_b == <<"b">>
N_o == <<"o">>
N_x == <<"x">>
N_a_b == <<"a", "_", "b">>
N_a_sp_b == <<"a", " ", "b">>
N_quest == <<"?">>
N_bang == <<"!">>
N_1a == <<"1", "a">>
N_field_1 == <<"f", "i", "e", "l", "d", "_", "1">>

\* A signature definition is a JSON object, kept as the sequence of its
\* members in the order the caller wrote them; a field list is the sequence
\* of the names of its field definitions {"name": ...}, <<>> being a field
\* without a name.
Def(inputs, outputs) == << <<"inputs", inputs>>, <<"outputs", outputs>> >>
DefOutputsFirst(inputs, outputs) == << <<"outputs", outputs>>, <<"inputs", inputs>> >>

SignatureDefs ==
    {Def(<<N_o>>, <<N_a_b>>),
     Def(<<N_quest, N_bang>>, <<N_o>>),
     Def(<<N_bang, N_quest>>, <<N_o>>),
     DefOutputsFirst(<<N_quest, N_bang>>, <<N_o>>),
     Def(<<N_a_sp_b, N_a_b>>, <<N_o>>),
     Def(<<N_a_sp_b, N_x>>, <<N_a_b>>),
     DefOutputsFirst(<<N_a_sp_b, N_x>>, <<N_a_b>>),
     Def(<<N_field_1, N_1a>>, <<N_o>>),
     Def(<<N_o>>, <<N_quest, N_bang>>),
     Def(<<N_o>>, <<N_bang, N_quest>>),
     Def(<<N_quest>>, <<N_quest, N_bang>>),
     Def(<<N_o>>, <<N_o>>),
     Def(<<N_a_sp_b>>, <<N_a_b>>),
     Def(<<>>, <<N_o>>),
     Def(<<N_o>>, <<>>),
     Def(<<N_o>>, <<N_a_b, <<>> >>)}

\* signature_def.get(k, [])
Get(d, k) ==
    IF \E i \in 1..Len(d) : d[i][1] = k
    THEN d[CHOOSE i \in 1..Len(d) : d[i][1] = k][2]
    ELSE <<>>

\* json.dumps(signature_def, sort_keys=True): the members in the order of
\* their keys, the lists as they are.
signature_key(d) == << <<"inputs", Get(d, "inputs")>>, <<"outputs", Get(d, "outputs")>> >>

\* The two loops of _create_signature_class over inputs and outputs: each
\* named field is entered in field_mapping and its attribute is set in attrs
\* (slots: attribute name -> 'input' or 'output').
RECURSIVE AddFields(_, _, _)
AddFields(fields, role, acc) ==
    IF fields = <<>> THEN acc
    ELSE LET raw_field_name == Head(fields)
             name == FieldName(raw_field_name, Cardinality(DOMAIN acc.field_mapping))
         IN AddFields(Tail(fields), role,
                      [field_mapping |-> Put(acc.field_mapping, raw_field_name, name),
                       slots |-> Put(acc.slots, name, role)])

Unnamed(fields) == \E i \in 1..Len(fields) : fields[i] = <<>>

\* DSPyBridge._create_signature_class: status "returned" with the mapping and
\* the attributes of the class, or the ValueError raised.
_create_signature_class(d) ==
    LET inputs == Get(d, "inputs")
        outputs == Get(d, "outputs")
        none == [field_mapping |-> <<>>, slots |-> <<>>]
        built == AddFields(outputs, "output", AddFields(inputs, "input", none))
        count(role) == Cardinality({n \in DOMAIN built.slots : built.slots[n] = role})
        raise(e) == [status |-> e, field_mapping |-> <<>>, slots |-> <<>>]
    IN IF inputs = <<>> THEN raise("Signature must have at least one input field")
       ELSE IF outputs = <<>>
       THEN raise("Signature must have at least one output field")
       ELSE IF Unnamed(inputs) \/ Unnamed(outputs)
       THEN raise("Field definition must have a 'name'")
       ELSE IF count("input") = 0
       THEN raise("No valid input fields after sanitization")
       ELSE IF count("output") = 0
       THEN raise("No valid output fields after sanitization")
       ELSE [status |-> "returned", field_mapping |-> built.field_mapping,
             slots |-> built.slots]

\* ------------------------------------------------------ program registry
\* Does create_program take the dynamic-signature path: the flag (argument
\* use_dynamic_signature, by default the feature flag, which is on) is set
\* and the definition has inputs and outputs.
UseDynamic(args) == args.use_dynamic_signature /\ args.signature # "empty"

\* Does _get_or_create_signature_class return for this definition (it raises
\* otherwise); the result depends on the definition alone.
Compiles(sig) == sig = "valid"

\* The definition each member of SigDefs stands for: one that compiles, one
\* whose only output takes the attribute of its only input, so that no input
\* field is left, and one without outputs.
DefinitionOf(sig) ==
    CASE sig = "valid" -> Def(<<N_o>>, <<N_a_b>>)
      [] sig = "uncompilable" -> Def(<<N_o>>, <<N_o>>)
      [] OTHER -> Def(<<N_o>>, <<>>)

\* Cached with the entry compiled again and stored over the one in the
\* cache.
Cached_ReplacesEntry(cache, count, d) ==
    LET r == _create_signature_class(d) IN
    IF r.status = "returned"
    THEN [signature_cache |->
            Put(cache, signature_key(d),
                [class |-> count + 1, field_mapping |-> r.field_mapping,
                 slots |-> r.slots]),
          class_count |-> count + 1]
    ELSE [signature_cache |-> cache, class_count |-> count]

\* DSPyBridge._get_or_create_signature_class(d) on the cache and the number
\* of classes created so far: a hit leaves both alone, a miss stores what
\* _create_signature_class returns, an exception of it leaves both alone.
Cached(cache, count, d) ==
    LET r == _create_signature_class(d) IN
    IF signature_key(d) \notin DOMAIN cache /\ r.status = "returned"
    THEN [signature_cache |->
            Put(cache, signature_key(d),
                [class |-> count + 1, field_mapping |-> r.field_mapping,
                 slots |-> r.slots]),
          class_count |-> count + 1]
    ELSE [signature_cache |-> cache, class_count |-> count]

\* The dict create_program stores (keys program, signature_class,
\* signature_def, field_mapping, fallback_used, ...).  type "dspy" stands for
\* a record without a 'type' key.
ProgramInfo(args, t) ==
    [type |-> "dspy",
     signature_def |-> args.signature,
     signature_class |-> UseDynamic(args) /\ Compiles(args.signature),
     field_mapping |-> IF UseDynamic(args) /\ Compiles(args.signature)
                       THEN "mapping" ELSE "empty",
     fallback_used |-> UseDynamic(args) /\ ~Compiles(args.signature),
     execution_count |-> 0,
     last_executed |-> <<>>]

\* The dict create_gemini_program stores (keys type, model, signature, ...).
GeminiInfo(sig, t) ==
    [type |-> "gemini",
     signature_def |-> sig,
     signature_class |-> FALSE,
     field_mapping |-> "empty",
     fallback_used |-> FALSE,
     execution_count |-> 0,
     last_executed |-> <<>>]

\* The dict _create_variable_aware_program stores.
VariableAwareInfo(sig, t) ==
    [type |-> "variable_aware",
     signature_def |-> sig,
     signature_class |-> FALSE,
     field_mapping |-> IF sig = "empty" THEN "empty" ELSE "mapping",
     fallback_used |-> FALSE,
     execution_count |-> 0,
     last_executed |-> <<>>]

\* Which keys a stored dict has: only Gemini records carry 'signature' and
\* only they lack 'program'.
HasSignatureKey(info) == info.type = "gemini"
\* HasProgramKey for records that all carry 'program'.
HasProgramKey_EveryRecord(info) == TRUE
HasProgramKey(info) == info.type # "gemini"

\* self.programs[program_id] = program_info
Store(b, p, info) ==
    [b EXCEPT !.has_programs = TRUE, !.programs = Put(b.programs, p, info)]

\* DSPyBridge._get_or_create_session_context: None unless variable-aware
\* features are enabled; creating the context may fail.
SessionContexts ==
    IF VARIABLE_AWARE_AVAILABLE THEN {"ctx", None} ELSE {None}

\* DSPyBridge._create_variable_aware_program: no existence check; a failure
\* of create_variable_aware_program is returned as {"error": ...}.
_create_variable_aware_program(b, args, t) ==
    IF ~Truthy(args.session_id)
    THEN {Raise(b, "Session ID required for variable-aware programs")}
    ELSE UNION {
        IF ctx = None
        THEN {Raise(b, "Failed to create session context")}
        ELSE {RetError(b, "Failed to create variable-aware program"),
              Ret(IF mode = "pool-worker" /\ args.session_id # "anonymous"
                  THEN b
                  ELSE Store(b, args.id, VariableAwareInfo(args.signature, t)),
                  "created")}
        : ctx \in SessionContexts }

\* DSPyBridge.create_program
create_program(b, args, t) ==
    IF ~DSPY_AVAILABLE
    THEN {Raise(b, "DSPy not available - cannot create programs")}
    ELSE IF ~args.mapping THEN {Raise(b, AttributeError)}
    ELSE IF ~Truthy(args.id) THEN {Raise(b, "Program ID is required")}
    ELSE IF args.variable_aware /\ VARIABLE_AWARE_AVAILABLE
    THEN _create_variable_aware_program(b, args, t)
    ELSE IF mode = "pool-worker"
    THEN IF ~Truthy(args.session_id)
         THEN {Raise(b, "Session ID required in pool-worker mode")}
         ELSE IF args.session_id = "anonymous"
         THEN {Ret(Store(b, args.id, ProgramInfo(args, t)), "created")}
         ELSE {Ret(b, "created")}
    ELSE IF args.id \in DOMAIN b.programs
    THEN {Raise(EnsurePrograms(b), "Program with ID already exists")}
    ELSE {Ret(Store(b, args.id, ProgramInfo(args, t)), "created")}

\* DSPyBridge.create_gemini_program
create_gemini_program(b, args, t) ==
    IF ~GEMINI_AVAILABLE
    THEN {Raise(b, "Gemini not available - cannot create Gemini programs")}
    ELSE IF ~args.mapping THEN {Raise(b, AttributeError)}
    ELSE IF ~Truthy(args.id) THEN {Raise(b, "Program ID is required")}
    ELSE IF args.id \in DOMAIN b.programs
    THEN {Raise(EnsurePrograms(b), "Program with ID already exists")}
    ELSE {Ret(Store(b, args.id, GeminiInfo(args.signature, t)), "created"),
          Raise(EnsurePrograms(b), "Failed to create Gemini program")}

\* ------------------------------------------------------------- execution
\* execution_count += 1; last_executed = time.time()
Executed(b, p, t) ==
    [b EXCEPT !.programs[p].execution_count = @ + 1,
              !.programs[p].last_executed = <<t>>]

\* The bridge states after execute_program's language-model check, when one
\* is configured or GEMINI_API_KEY is set: the implicit configure_lm call
\* returns whether or not it configured anything.
AfterLmCheck(b) ==
    IF b.lm_configured THEN {b}
    ELSE {o.bridge : o \in configure_lm(b, DefaultLmArgs)}

\* Is the program resolved from the caller's snapshot (program_data) instead
\* of the local map.
Stateless(args) == mode = "pool-worker" /\ args.program_data # None

\* The snapshots a caller supplies as program_data, named by the create_program
\* arguments whose result they were taken from.
SnapshotKeys == {"snap_valid", "snap_legacy", "snap_uncompilable", "snap_empty"}

SnapshotArgs(key) ==
    CASE key = "snap_valid" -> [NoArgs EXCEPT !.signature = "valid"]
      [] key = "snap_legacy" ->
           [NoArgs EXCEPT !.signature = "valid", !.use_dynamic_signature = FALSE]
      [] key = "snap_uncompilable" -> [NoArgs EXCEPT !.signature = "uncompilable"]
      [] OTHER -> [NoArgs EXCEPT !.signature = "empty"]

\* The execution_count the caller's store holds for its snapshots.
SnapshotCount == 1

\* program_data: the fields create_program returned (signature_class is the
\* class name or None), with the statistics the caller keeps.
program_data_of(key) ==
    [ProgramInfo(SnapshotArgs(key), 0) EXCEPT !.execution_count = SnapshotCount]

\* DSPyBridge._recreate_program_from_data: a new dict; the signature is
\* compiled again when the snapshot names a class and no fallback, every
\* other snapshot gets the question/answer program and fallback_used True.
_recreate_program_from_data(pd) ==
    IF pd.signature_class /\ ~pd.fallback_used /\ Truthy(pd.signature_def)
    THEN IF Compiles(pd.signature_def)
         THEN [pd EXCEPT !.field_mapping = "mapping", !.fallback_used = FALSE]
         ELSE [pd EXCEPT !.field_mapping = "empty", !.fallback_used = TRUE]
    ELSE [pd EXCEPT !.field_mapping = "empty", !.fallback_used = TRUE]

\* execute_program's is_dynamic: keyword arguments through field_mapping, or
\* the question/answer call.
IsDynamic(info) == info.signature_class /\ ~info.fallback_used

\* The keys of the outputs execute_program returns.
Outputs(info) == IF IsDynamic(info) THEN "signature outputs" ELSE "answer"

\* The record execute_program leaves after a successful call on a snapshot.
Transient(pd, t) ==
    [_recreate_program_from_data(pd) EXCEPT !.execution_count = @ + 1,
                                            !.last_executed = <<t>>]

\* AfterExecution keeping the record it rebuilt from the snapshot in the
\* local map.
AfterExecution_KeepsTransient(b, args, t) ==
    IF Stateless(args)
    THEN Store(b, args.program_id,
               Transient(program_data_of(args.program_data), t))
    ELSE Executed(b, args.program_id, t)

\* The bridge after a successful execution: the statistics are updated on
\* the record that was resolved, a transient dict when it came from
\* program_data.
AfterExecution(b, args, t) ==
    IF Stateless(args) THEN b ELSE Executed(b, args.program_id, t)

\* DSPyBridge.execute_program.  The executable returns or raises; the
\* statistics are updated on the record that was resolved, which is a
\* transient copy when it was rebuilt from program_data.
execute_program(b, args, t) ==
    IF ~args.mapping THEN {Raise(b, AttributeError)}
    ELSE IF ~Truthy(args.program_id) THEN {Raise(b, "Program ID is required")}
    ELSE IF Stateless(args) /\ ~DSPY_AVAILABLE
    THEN {Raise(b, "DSPy not available - cannot recreate programs")}
    ELSE IF ~Stateless(args) /\ ~HasProgram(b, args.program_id)
    THEN {Raise(b, "Program not found")}
    ELSE IF ~Stateless(args) /\ ~HasProgramKey(b.programs[args.program_id])
    THEN {Raise(b, "KeyError: 'program'")}
    ELSE IF ~b.lm_configured /\ ~GEMINI_API_KEY
    THEN {Raise(b, "No LM is loaded.")}
    ELSE UNION {
        {Ret(AfterExecution(b1, args, t), "executed"),
         Raise(b1, "Program execution failed")}
        : b1 \in AfterLmCheck(b) }

\* execute_gemini_program with the statistics updated before
\* generate_content is called, so that a failed call counts too.
execute_gemini_program_CountsFailures(b, args, t) ==
    IF ~args.mapping THEN {Raise(b, AttributeError)}
    ELSE IF ~Truthy(args.program_id) THEN {Raise(b, "Program ID is required")}
    ELSE IF args.program_id \notin DOMAIN b.programs
    THEN {Raise(EnsurePrograms(b), "Program not found")}
    ELSE IF b.programs[args.program_id].type # "gemini"
    THEN {Raise(b, "Program is not a Gemini program")}
    ELSE {Ret(Executed(b, args.program_id, t), "executed"),
          Raise(Executed(b, args.program_id, t),
                "Gemini program execution failed")}

\* DSPyBridge.execute_gemini_program: always on the local map; the prompt
\* building, model.generate_content and the response parsing return or raise
\* before the statistics are touched.
execute_gemini_program(b, args, t) ==
    IF ~args.mapping THEN {Raise(b, AttributeError)}
    ELSE IF ~Truthy(args.program_id) THEN {Raise(b, "Program ID is required")}
    ELSE IF args.program_id \notin DOMAIN b.programs
    THEN {Raise(EnsurePrograms(b), "Program not found")}
    ELSE IF b.programs[args.program_id].type # "gemini"
    THEN {Raise(b, "Program is not a Gemini program")}
    ELSE {Ret(Executed(b, args.program_id, t), "executed"),
          Raise(b, "Gemini program execution failed")}

\* ------------------------------------------------- listing and deletion
\* DSPyBridge.get_session_from_store: the session store is not reachable
\* from the worker, the lookup returns None (get_session_from_store_Found: a
\* lookup that finds the session).
get_session_from_store_Found(session_id) == "session"
get_session_from_store(session_id) == None

\* The ids in the program_list that list_programs builds: in pool-worker mode
\* the programs of the session found in the session store, in standalone
\* mode the records of the program map.
program_list(b, args) ==
    IF mode = "pool-worker"
    THEN IF Truthy(args.session_id)
            /\ get_session_from_store(args.session_id) # None
         THEN {"programs of the stored session"}
         ELSE {}
    ELSE IF b.has_programs THEN DOMAIN b.programs ELSE {}

\* DSPyBridge.list_programs: the standalone branch reads
\* program_info['signature'] of every record; the pool-worker branch asks
\* the session store.
list_programs(b, args) ==
    IF mode = "pool-worker"
    THEN IF ~args.mapping THEN {Raise(b, AttributeError)}
         ELSE {Ret(b, "listed")}
    ELSE IF b.has_programs
            /\ \E p \in DOMAIN b.programs : ~HasSignatureKey(b.programs[p])
    THEN {Raise(b, "KeyError: 'signature'")}
    ELSE {Ret(b, "listed")}

\* delete_program without the del statements: it reports "deleted" and
\* keeps the record.
delete_program_KeepsRecord(b, args) ==
    IF ~args.mapping THEN {Raise(b, AttributeError)}
    ELSE IF ~Truthy(args.program_id) THEN {Raise(b, "Program ID is required")}
    ELSE IF mode = "pool-worker" /\ ~Truthy(args.session_id)
    THEN {Raise(b, "Session ID required in pool-worker mode")}
    ELSE IF mode = "pool-worker" /\ args.session_id # "anonymous"
    THEN {Raise(b, "Session not found")}
    ELSE IF args.program_id \notin DOMAIN b.programs
    THEN {Raise(EnsurePrograms(b), "Program not found")}
    ELSE {Ret(b, "deleted")}

\* DSPyBridge.delete_program
delete_program(b, args) ==
    IF ~args.mapping THEN {Raise(b, AttributeError)}
    ELSE IF ~Truthy(args.program_id) THEN {Raise(b, "Program ID is required")}
    ELSE IF mode = "pool-worker" /\ ~Truthy(args.session_id)
    THEN {Raise(b, "Session ID required in pool-worker mode")}
    ELSE IF mode = "pool-worker" /\ args.session_id # "anonymous"
    THEN IF get_session_from_store(args.session_id) = None
         THEN {Raise(b, "Session not found")}
         ELSE {Raise(b, "Program not found in session")}
    ELSE IF args.program_id \notin DOMAIN b.programs
    THEN {Raise(EnsurePrograms(b), "Program not found")}
    ELSE {Ret([b EXCEPT !.programs = Del(@, args.program_id)], "deleted")}

\* DSPyBridge.get_program_info
get_program_info(b, args) ==
    IF ~args.mapping THEN {Raise(b, AttributeError)}
    ELSE IF ~Truthy(args.program_id) THEN {Raise(b, "Program ID is required")}
    ELSE IF args.program_id \notin DOMAIN b.programs
    THEN {Raise(EnsurePrograms(b), "Program not found")}
    ELSE IF ~HasSignatureKey(b.programs[args.program_id])
    THEN {Raise(b, "KeyError: 'signature'")}
    ELSE {Ret(b, "info")}

\* ------------------------------------------------------- administration
\* DSPyBridge.ping
ping(b, args) == {Ret(b, "ok")}

\* DSPyBridge.get_stats
get_stats(b, args) == {Ret(b, "stats")}

\* len(getattr(self, 'programs', {}))
program_count(b) == IF b.has_programs THEN Cardinality(DOMAIN b.programs) ELSE 0

\* cleanup counting the programs after it has cleared the map.
cleanup_CountsAfterClear(b, args) ==
    {RetReport([b EXCEPT !.programs = EmptyMap], "cleaned",
               <<program_count([b EXCEPT !.programs = EmptyMap])>>)}

\* DSPyBridge.cleanup: the result reports programs_removed.
cleanup(b, args) ==
    {RetReport([b EXCEPT !.programs = EmptyMap], "cleaned",
               <<program_count(b)>>)}

\* reset_state without the reset of error_count.
reset_state_KeepsErrors(b, args) ==
    {RetReport([b EXCEPT !.programs = EmptyMap, !.command_count = 0],
               "reset", <<program_count(b), b.command_count, b.error_count>>)}

\* DSPyBridge.reset_state: the result reports programs_cleared,
\* commands_reset and errors_reset.
reset_state(b, args) ==
    {RetReport([b EXCEPT !.programs = EmptyMap, !.command_count = 0,
                         !.error_count = 0],
               "reset", <<program_count(b), b.command_count, b.error_count>>)}

\* DSPyBridge.cleanup_session
cleanup_session(b, args) ==
    IF mode # "pool-worker" THEN {Ret(b, "not_applicable")}
    ELSE IF ~args.mapping THEN {Raise(b, AttributeError)}
    ELSE IF ~Truthy(args.session_id)
    THEN {Raise(b, "Session ID required for cleanup")}
    ELSE {Ret(b, "cleaned")}

\* DSPyBridge.shutdown: it only builds the acknowledgment; in standalone mode
\* it empties the program map.
shutdown(b, args) ==
    IF mode = "pool-worker" THEN {Ret(b, "shutting_down")}
    ELSE {Ret([b EXCEPT !.programs = EmptyMap], "shutting_down")}

\* DSPyBridge.get_session_data and DSPyBridge.update_session_data
session_data(b, args, status) ==
    IF ~args.mapping THEN {Raise(b, AttributeError)}
    ELSE IF ~Truthy(args.session_id)
    THEN {RetError(b, "session_id is required")}
    ELSE {Ret(b, status)}

\* DSPyBridge.update_variable_bindings and DSPyBridge.get_variable_bindings:
\* the bindings live in the module object, outside the registry fields
\* modelled here.
variable_bindings(b, args, status) ==
    IF ~VARIABLE_AWARE_AVAILABLE
    THEN {RetError(b, "Variable-aware features not available")}
    ELSE IF ~args.mapping THEN {Raise(b, AttributeError)}
    ELSE IF ~Truthy(args.program_id) THEN {Raise(b, "Program ID is required")}
    ELSE IF ~HasProgram(b, args.program_id) THEN {Raise(b, "Program not found")}
    ELSE IF b.programs[args.program_id].type # "variable_aware"
    THEN {RetError(b, "Program is not variable-aware")}
    ELSE {Ret(b, status), RetError(b, "binding failed")}

\* EnhancedDSPyBridge._execute_variable_aware_program: no language-model
\* check; an exception of the sync or of the program is counted and
\* returned as {"error": ...}.
_execute_variable_aware_program(b, args, t) ==
    {Ret(Executed(b, args.id, t), "executed"),
     RetError([b EXCEPT !.error_count = @ + 1], "Program execution failed")}

\* EnhancedDSPyBridge.execute_program: the record is looked up under
\* args['id'], in pool-worker mode through self._get_program_from_session,
\* a method that neither class defines; a record that is not variable-aware
\* goes to DSPyBridge.execute_program with the same args.
EnhancedDSPyBridge_execute_program(b, args, t) ==
    IF ~args.mapping THEN {Raise(b, AttributeError)}
    ELSE IF mode = "pool-worker"
    THEN {Raise(b, "AttributeError: _get_program_from_session")}
    ELSE IF args.id \notin DOMAIN b.programs
    THEN {RetError(b, "Program not found")}
    ELSE IF b.programs[args.id].type = "variable_aware"
    THEN _execute_variable_aware_program(b, args, t)
    ELSE execute_program(b, args, t)

\* The definitions a command hands to _get_or_create_signature_class:
\* create_program on its dynamic path, once the checks of its arguments have
\* passed, and execute_program when it rebuilds the program from a
\* program_data that names a class and no fallback.
CompiledBy(command, b, args) ==
    IF ~args.mapping \/ ~DSPY_AVAILABLE THEN <<>>
    ELSE IF command = "create_program"
    THEN IF /\ Truthy(args.id)
            /\ ~(args.variable_aware /\ VARIABLE_AWARE_AVAILABLE)
            /\ IF mode = "pool-worker" THEN Truthy(args.session_id)
               ELSE args.id \notin DOMAIN b.programs
            /\ UseDynamic(args)
         THEN <<DefinitionOf(args.signature)>>
         ELSE <<>>
    ELSE IF command = "execute_program" /\ Stateless(args)
            /\ Truthy(args.program_id)
    THEN LET pd == program_data_of(args.program_data) IN
         IF pd.signature_class /\ ~pd.fallback_used /\ Truthy(pd.signature_def)
         THEN <<DefinitionOf(pd.signature_def)>>
         ELSE <<>>
    ELSE <<>>

\* self.signature_cache and the number of classes created, after the
\* command: no handler touches the cache but through
\* _get_or_create_signature_class.
CacheAfter(command, b, args) ==
    IF CompiledBy(command, b, args) = <<>>
    THEN [signature_cache |-> signature_cache, class_count |-> class_count]
    ELSE Cached(signature_cache, class_count, CompiledBy(command, b, args)[1])

\* ------------------------------------------------------------- dispatcher
Handlers ==
    {"ping", "configure_lm", "create_program", "create_gemini_program",
     "execute_program", "execute_gemini_program", "list_programs",
     "delete_program", "get_stats", "cleanup", "reset_state",
     "get_program_info", "cleanup_session", "shutdown", "get_session_data",
     "update_session_data", "update_variable_bindings",
     "get_variable_bindings"}

RunHandler(command, b, args, t) ==
    CASE command = "ping" -> ping(b, args)
      [] command = "configure_lm" -> configure_lm(b, args)
      [] command = "create_program" -> create_program(b, args, t)
      [] command = "create_gemini_program" -> create_gemini_program(b, args, t)
      [] command = "execute_program" -> execute_program(b, args, t)
      [] command = "execute_gemini_program" -> execute_gemini_program(b, args, t)
      [] command = "list_programs" -> list_programs(b, args)
      [] command = "delete_program" -> delete_program(b, args)
      [] command = "get_stats" -> get_stats(b, args)
      [] command = "cleanup" -> cleanup(b, args)
      [] command = "reset_state" -> reset_state(b, args)
      [] command = "get_program_info" -> get_program_info(b, args)
      [] command = "cleanup_session" -> cleanup_session(b, args)
      [] command = "shutdown" -> shutdown(b, args)
      [] command = "get_session_data" -> session_data(b, args, "not_stored_locally")
      [] command = "update_session_data" -> session_data(b, args, "acknowledged")
      [] command = "update_variable_bindings" -> variable_bindings(b, args, "updated")
      [] command = "get_variable_bindings" -> variable_bindings(b, args, "bindings")

\* A handler exception is counted in error_count and re-raised.
CountRaise(o) ==
    IF o.kind = "raise" THEN [o EXCEPT !.bridge.error_count = @ + 1] ELSE o

\* DSPyBridge.handle_command
handle_command(b, command, args, t) ==
    LET counted == [b EXCEPT !.command_count = @ + 1] IN
    IF command \notin Handlers
    THEN {Raise([counted EXCEPT !.error_count = @ + 1], "Unknown command")}
    ELSE {CountRaise(o) : o \in RunHandler(command, counted, args, t)}

\* --------------------------------------------------------- inbound frames
ArgsFor(command) ==
    CASE command = "create_program" ->
           {[NoArgs EXCEPT !.id = p, !.session_id = sid, !.variable_aware = va,
                           !.signature = "valid"]
              : p \in ProgIds, sid \in SessionIds, va \in BOOLEAN}
           \cup {[NoArgs EXCEPT !.id = "p1", !.session_id = "anonymous",
                                !.signature = sig]
              : sig \in SigDefs}
           \cup {[NoArgs EXCEPT !.id = "p1", !.session_id = "anonymous",
                                !.signature = "valid",
                                !.use_dynamic_signature = FALSE]}
           \cup {[NoArgs EXCEPT !.session_id = "anonymous"]}
      [] command = "create_gemini_program" ->
           {[NoArgs EXCEPT !.id = p, !.signature = "valid"]
              : p \in ProgIds \cup {None}}
           \cup {[NoArgs EXCEPT !.id = "p1", !.session_id = "s1",
                                !.signature = "valid"]}
      [] command = "execute_program" ->
           {[NoArgs EXCEPT !.program_id = p, !.session_id = sid]
              : p \in ProgIds, sid \in {None, "anonymous"}}
           \cup {[NoArgs EXCEPT !.program_id = "p1", !.session_id = "s1",
                                !.program_data = d] : d \in SnapshotKeys}
           \cup {NoArgs}
      [] command = "execute_gemini_program" ->
           {[NoArgs EXCEPT !.program_id = p] : p \in ProgIds \cup {None}}
           \cup {[NoArgs EXCEPT !.program_id = "p1", !.session_id = "s1"]}
      [] command = "get_program_info" ->
           {[NoArgs EXCEPT !.program_id = p] : p \in ProgIds \cup {None}}
      [] command \in {"update_variable_bindings", "get_variable_bindings"} ->
           {[NoArgs EXCEPT !.program_id = p] : p \in {"p1", None}}
      [] command = "delete_program" ->
           {[NoArgs EXCEPT !.program_id = p, !.session_id = sid]
              : p \in ProgIds, sid \in SessionIds}
           \cup {[NoArgs EXCEPT !.session_id = "anonymous"], NonMappingArgs}
      [] command = "list_programs" ->
           {[NoArgs EXCEPT !.session_id = sid] : sid \in SessionIds}
      [] command \in {"cleanup_session", "get_session_data",
                      "update_session_data"} ->
           {[NoArgs EXCEPT !.session_id = sid] : sid \in {None, "s1"}}
      [] command = "configure_lm" ->
           {NoArgs, NonMappingArgs,
            [NoArgs EXCEPT !.model = "gemini-1.5-flash"],
            [NoArgs EXCEPT !.model = "gemini-1.5-flash", !.api_key = "key"],
            [NoArgs EXCEPT !.model = "gpt-4", !.api_key = "key"],
            [NoArgs EXCEPT !.model = "gemini-1.5-flash", !.api_key = "key",
                           !.provider = "openai"]}
      [] command = "ping" -> {NoArgs, NonMappingArgs}
      [] OTHER -> {NoArgs}

\* The commands a peer sends: the handlers' names, an unknown name and a
\* name that cannot be encoded back.
Commands == Handlers \cup {"bogus", BadStr}

\* Envelopes with a non-null id and command: every command with every
\* argument set under the first id, and the commands whose handling does not
\* look at the arguments under every id.
Requests ==
    UNION {{[id |-> 1, command |-> c, args |-> a] : a \in ArgsFor(c)}
             : c \in Commands}
    \cup {[id |-> i, command |-> c, args |-> NoArgs]
            : i \in RequestIds, c \in {"ping", "get_stats", "bogus", BadStr}}

\* What read_message can meet on stdin:
\*   eof          the stream ends at a frame boundary
\*   truncated    the stream ends inside the header or the payload
\*   bad_utf8     a complete frame whose payload is not UTF-8
\*   bad_json     a complete frame whose payload is not JSON
\*   json_null    the payload is the JSON value null
\*   non_object   the payload is a JSON array, number, string or boolean
\*   no_id, no_command   a JSON object whose id / command is missing or null
\*   request      a JSON object with id and command
FrameKinds ==
    {"eof", "truncated", "bad_utf8", "bad_json", "json_null", "non_object",
     "no_id", "no_command", "request"}

Frames ==
    {[kind |-> k, envelope |-> NoRequest] : k \in FrameKinds \ {"request"}}
    \cup {[kind |-> "request", envelope |-> r] : r \in Requests}

\* read_message: None on end of stream and on every decoding error, else the
\* parsed JSON value (json.loads of "null" is None as well).
read_message(f) ==
    IF f.kind \in {"eof", "truncated", "bad_utf8", "bad_json", "json_null"}
    THEN "None"
    ELSE f.kind

\* Can json.dumps(..., ensure_ascii=False).encode('utf-8') encode the text.
Encodable(text) == text # BadStr

\* write_message on the pipe state it meets: the frame is written, the
\* encoding error is printed and swallowed, or BrokenPipeError is re-raised.
write_message(message, pipe) ==
    IF ~Encodable(message.embeds) THEN "swallowed"
    ELSE IF pipe = "broken" THEN "BrokenPipeError"
    ELSE "written"

\* ----------------------------------------------------------------- main()
Init ==
    /\ mode \in {"standalone", "pool-worker"}
    /\ VARIABLE_AWARE_AVAILABLE \in BOOLEAN
    /\ GEMINI_API_KEY \in BOOLEAN
    /\ pc = "read"
    /\ stdin = "open"
    /\ stdout = "open"
    /\ clock = 0
    /\ exit_reason = "running"
    /\ request = NoRequest
    /\ response = NoResponse
    /\ bridge = [programs |-> EmptyMap,
                 has_programs |-> (mode = "standalone"),
                 command_count |-> 0,
                 error_count |-> 0,
                 lm_configured |-> FALSE]
    /\ accepted = 0
    /\ written = 0
    /\ last_written = NoFrame
    /\ deleted = {}
    /\ wire = <<>>
    /\ rstate = "header"
    /\ length_bytes = <<>>
    /\ data = <<>>
    /\ result = <<>>
    /\ sent = <<>>
    /\ got = <<>>
    /\ raw = FALSE
    /\ signalled = FALSE
    /\ signature_cache = <<>>
    /\ class_count = 0
    /\ ret = NoReturn
    /\ _MODULE_STORAGE = <<>>
    /\ reply = NoReply
    /\ session_context = [values |-> <<>>, failing |-> FALSE]
    /\ program_info = NoProgram
    /\ program = NoModule
    /\ updates = <<>>
    /\ invoked = NoCall

\* AfterRead without the mode test: a None message ends the loop in
\* pool-worker mode too.
AfterRead_ExitInEveryMode(f) ==
    IF read_message(f) = "None" THEN "done"
    ELSE IF read_message(f) = "non_object" THEN "done"
    ELSE IF read_message(f) \in {"no_id", "no_command"} THEN "read"
    ELSE "respond"

\* AfterRead with break in place of continue for an envelope without id or
\* command.
AfterRead_NullIdEndsLoop(f) ==
    IF read_message(f) = "None"
    THEN IF mode = "pool-worker" THEN "read" ELSE "done"
    ELSE IF read_message(f) = "non_object" THEN "done"
    ELSE IF read_message(f) \in {"no_id", "no_command"} THEN "done"
    ELSE "respond"

\* Where main() goes after read_message returned for frame f: it leaves the
\* loop, reads again, or dispatches.
AfterRead(f) ==
    IF read_message(f) = "None"
    THEN IF mode = "pool-worker" THEN "read" ELSE "done"
    ELSE IF read_message(f) = "non_object" THEN "done"
    ELSE IF read_message(f) \in {"no_id", "no_command"} THEN "read"
    ELSE "respond"

\* The text of the request that the response repeats.
Embeds(req, o) == IF o.value = "Unknown command" THEN req.command ELSE None

\* The envelope main() builds from handle_command's outcome.
ResponseFor(req, o) ==
    [id |-> req.id, success |-> o.kind # "raise", value |-> o.value,
     error_in_result |-> o.kind = "return_error", embeds |-> Embeds(req, o),
     report |-> o.report]

CreateCommands == {"create_program", "create_gemini_program"}

\* History of delete_program: the ids it removed and no create command has
\* reported as created since.
DeletedAfter(req, o) ==
    IF o.kind = "return" /\ req.command = "delete_program"
    THEN deleted \cup {req.args.program_id}
    ELSE IF o.kind = "return" /\ req.command \in CreateCommands
    THEN deleted \ {req.args.id}
    ELSE deleted

\* One pass of the loop body for frame f, up to the response: message =
\* read_message(), the checks on it and result = bridge.handle_command(
\* command, args).  A value without .get raises AttributeError outside the
\* inner try, which ends the loop.
Serve(f) ==
    /\ pc = "read"
    /\ clock < MaxFrames
    /\ clock' = clock + 1
    /\ stdin = "eof" => f.kind = "eof"
    /\ stdin' = IF f.kind \in {"eof", "truncated"} THEN "eof" ELSE stdin
    /\ pc' = AfterRead(f)
    /\ exit_reason' = IF AfterRead(f) = "done" THEN f.kind ELSE exit_reason
    /\ IF AfterRead(f) = "respond"
       THEN /\ accepted' = accepted + 1
            /\ request' = f.envelope
            /\ \E o \in handle_command(bridge, f.envelope.command,
                                       f.envelope.args, clock + 1) :
                /\ bridge' = o.bridge
                /\ response' = ResponseFor(f.envelope, o)
                /\ deleted' = DeletedAfter(f.envelope, o)
            /\ LET after == CacheAfter(f.envelope.command, bridge,
                                       f.envelope.args)
               IN /\ signature_cache' = after.signature_cache
                  /\ class_count' = after.class_count
       ELSE UNCHANGED <<accepted, request, bridge, response, deleted,
                        signature_cache, class_count>>
    /\ UNCHANGED <<env, stdout, written, last_written, channel, signalled,
                   ret, adapter, synced>>

ReadFrame == \E f \in Frames : Serve(f)

\* The states the pipe can be in when write_message runs: the peer may have
\* closed its end since the last write, and a broken pipe stays broken.
PipeStates == IF stdout = "broken" THEN {"broken"} ELSE {"open", "broken"}

\* WriteResponse without the except BrokenPipeError around the write of an
\* error response: the exception reaches the outer handler and ends the loop.
WriteResponse_ErrorPathUnguarded ==
    /\ pc = "respond"
    /\ \E pipe \in PipeStates :
        /\ stdout' = pipe
        /\ IF write_message(response, pipe) = "written"
           THEN /\ written' = written + 1
                /\ last_written' = [id |-> response.id,
                                    success |-> response.success]
           ELSE UNCHANGED <<written, last_written>>
        /\ pc' = IF write_message(response, pipe) = "BrokenPipeError"
                    /\ ~response.success
                 THEN "done" ELSE "read"
        /\ exit_reason' = IF write_message(response, pipe) = "BrokenPipeError"
                             /\ ~response.success
                          THEN "BrokenPipeError" ELSE exit_reason
    /\ request' = NoRequest
    /\ response' = NoResponse
    /\ UNCHANGED <<env, stdin, clock, bridge, accepted, deleted, channel,
                   signalled, compiler, adapter, synced>>

\* write_message(response) / write_message(error_response): a
\* BrokenPipeError is caught and the loop continues.
WriteResponse ==
    /\ pc = "respond"
    /\ \E pipe \in PipeStates :
        /\ stdout' = pipe
        /\ IF write_message(response, pipe) = "written"
           THEN /\ written' = written + 1
                /\ last_written' = [id |-> response.id,
                                    success |-> response.success]
           ELSE UNCHANGED <<written, last_written>>
    /\ pc' = "read"
    /\ request' = NoRequest
    /\ response' = NoResponse
    /\ UNCHANGED <<env, stdin, clock, exit_reason, bridge, accepted, deleted,
                   channel, signalled, compiler, adapter, synced>>

Next == ReadFrame \/ WriteResponse

Spec == Init /\ [][Next]_vars

\* ====================================================== framed channel
\* The byte level of read_message and write_message: a stream of bytes,
\* written frame by frame and read back in chunks of any size.
MaxMsgs == 2

\* ASCII codes of the characters json.dumps emits around keys and values.
LBrace == 123
RBrace == 125
Quote == 34
Colon == 58
Comma == 44
Space == 32
Zero == 48
\* Bytes that occur in no UTF-8 text.
NotUtf8 == {254, 255}

\* A message is a JSON object with one-letter keys and one-digit values, kept
\* as the sequence of its <<key, value>> members (keys as character codes).
Messages ==
    {<<>>, << <<105, 1>> >>, << <<105, 2>> >>, << <<105, 1>>, <<99, 7>> >>}

\* json.dumps of one member: "k": v
Member(kv) == <<Quote, kv[1], Quote, Colon, Space, Zero + kv[2]>>

RECURSIVE Members(_)
Members(m) ==
    IF m = <<>> THEN <<>>
    ELSE IF Len(m) = 1 THEN Member(m[1])
    ELSE Member(m[1]) \o <<Comma, Space>> \o Members(Tail(m))

\* json.dumps(message, ensure_ascii=False).encode('utf-8')
dumps(m) == <<LBrace>> \o Members(m) \o <<RBrace>>

\* Is bs, starting at offset i, the text of one member.
IsMember(bs, i) ==
    /\ i + 5 <= Len(bs)
    /\ bs[i] = Quote /\ bs[i + 2] = Quote
    /\ bs[i + 1] \notin {Quote, LBrace, RBrace, Colon, Comma, Space}
    /\ bs[i + 3] = Colon /\ bs[i + 4] = Space
    /\ bs[i + 5] \in Zero .. (Zero + 9)

\* Parsing the members that start at offset i of bs, up to the closing brace.
RECURSIVE ParseMembers(_, _)
ParseMembers(bs, i) ==
    IF ~IsMember(bs, i) THEN <<"JSONDecodeError">>
    ELSE LET kv == <<bs[i + 1], bs[i + 5] - Zero>> IN
         IF i + 6 = Len(bs) /\ bs[i + 6] = RBrace THEN << <<kv>> >>
         ELSE IF i + 7 < Len(bs) /\ bs[i + 6] = Comma /\ bs[i + 7] = Space
         THEN LET rest == ParseMembers(bs, i + 8) IN
              IF Len(rest) = 1 /\ rest[1] # "JSONDecodeError"
              THEN << <<kv>> \o rest[1] >>
              ELSE <<"JSONDecodeError">>
         ELSE <<"JSONDecodeError">>

\* data.decode('utf-8')
Utf8Valid(bs) == \A i \in 1..Len(bs) : bs[i] \notin NotUtf8

\* json.loads on an object in the layout above: <<m>> for the parsed message,
\* <<>> when JSONDecodeError is raised (the empty text included).
loads(bs) ==
    IF Len(bs) < 2 \/ bs[1] # LBrace THEN <<>>
    ELSE IF Len(bs) = 2 THEN (IF bs[2] = RBrace THEN << <<>> >> ELSE <<>>)
    ELSE LET r == ParseMembers(bs, 2) IN
         IF r = <<"JSONDecodeError">> THEN <<>> ELSE r

\* struct.pack('<I', n): the length written least significant byte first.
Pack_LittleEndian(n) ==
    <<n % 256, (n \div 256) % 256, (n \div 65536) % 256,
      (n \div 16777216) % 256>>

\* struct.pack('>I', n) and struct.unpack('>I', b)[0]
Pack(n) ==
    <<(n \div 16777216) % 256, (n \div 65536) % 256, (n \div 256) % 256,
      n % 256>>
Unpack(b) == b[1] * 16777216 + b[2] * 65536 + b[3] * 256 + b[4]

\* The bytes write_message puts on the stream for message m.
FrameOf(m) == Pack(Len(dumps(m))) \o dumps(m)

RECURSIVE FramesOf(_)
FramesOf(ms) == IF ms = <<>> THEN <<>> ELSE FrameOf(Head(ms)) \o FramesOf(Tail(ms))

\* Byte strings a peer can put on the stream without write_message: a frame
\* of length 0, half a header, a header whose payload never arrives in full,
\* a payload that is not UTF-8, a payload that is not JSON.
RawBytes ==
    {Pack(0), <<0, 0>>, Pack(8) \o <<LBrace>>, Pack(2) \o <<255, 254>>,
     Pack(1) \o <<LBrace>>}

Min(a, b) == IF a < b THEN a ELSE b
Take(bs, k) == SubSeq(bs, 1, k)
Drop(bs, k) == SubSeq(bs, k + 1, Len(bs))

FrameInit ==
    /\ mode \in {"standalone", "pool-worker"}
    /\ VARIABLE_AWARE_AVAILABLE = FALSE
    /\ GEMINI_API_KEY = FALSE
    /\ pc = "read"
    /\ stdin = "open"
    /\ stdout = "open"
    /\ clock = 0
    /\ exit_reason = "running"
    /\ request = NoRequest
    /\ response = NoResponse
    /\ bridge = [programs |-> EmptyMap, has_programs |-> mode = "standalone",
                 command_count |-> 0, error_count |-> 0,
                 lm_configured |-> FALSE]
    /\ accepted = 0
    /\ written = 0
    /\ last_written = NoFrame
    /\ deleted = {}
    /\ wire = <<>>
    /\ rstate = "header"
    /\ length_bytes = <<>>
    /\ data = <<>>
    /\ result = <<>>
    /\ sent = <<>>
    /\ got = <<>>
    /\ raw = FALSE
    /\ signalled = FALSE
    /\ signature_cache = <<>>
    /\ class_count = 0
    /\ ret = NoReturn
    /\ _MODULE_STORAGE = <<>>
    /\ reply = NoReply
    /\ session_context = [values |-> <<>>, failing |-> FALSE]
    /\ program_info = NoProgram
    /\ program = NoModule
    /\ updates = <<>>
    /\ invoked = NoCall

\* What the framed-channel steps leave alone.
served == <<VARIABLE_AWARE_AVAILABLE, GEMINI_API_KEY, stdout, clock,
            exit_reason, request, response, bridge, accepted, written,
            last_written, deleted, compiler, adapter, synced>>

\* write_message(m) by the peer: header and payload reach the stream.
WriteMessage(m) ==
    /\ stdin = "open"
    /\ Len(sent) < MaxMsgs
    /\ wire' = wire \o FrameOf(m)
    /\ sent' = Append(sent, m)
    /\ UNCHANGED <<mode, signalled, served, pc, stdin, rstate, length_bytes, data,
                   result, got, raw>>

\* Bytes written by other means, once.
WriteRaw(bs) ==
    /\ stdin = "open"
    /\ ~raw
    /\ raw' = TRUE
    /\ wire' = wire \o bs
    /\ UNCHANGED <<mode, signalled, served, pc, stdin, rstate, length_bytes, data,
                   result, sent, got>>

\* The peer closes its end of the stream.
CloseStream ==
    /\ stdin = "open"
    /\ stdin' = "eof"
    /\ UNCHANGED <<mode, signalled, served, pc, channel>>

\* One pass of the header loop: sys.stdin.buffer.read(4 - len(length_bytes))
\* returns some of the bytes asked for, or nothing at the end of the stream.
ReadHeader ==
    /\ pc = "read"
    /\ rstate = "header"
    /\ IF wire = <<>>
       THEN /\ stdin = "eof"
            /\ rstate' = "returned"
            /\ result' = <<>>
            /\ UNCHANGED <<wire, length_bytes>>
       ELSE \E k \in 1..Min(4 - Len(length_bytes), Len(wire)) :
            /\ length_bytes' = length_bytes \o Take(wire, k)
            /\ wire' = Drop(wire, k)
            /\ rstate' = IF Len(length_bytes) + k = 4 THEN "payload"
                         ELSE "header"
            /\ UNCHANGED result
    /\ UNCHANGED <<mode, signalled, served, pc, stdin, data, sent, got, raw>>

\* One pass of the payload loop.
ReadPayload ==
    /\ pc = "read"
    /\ rstate = "payload"
    /\ Len(data) < Unpack(length_bytes)
    /\ IF wire = <<>>
       THEN /\ stdin = "eof"
            /\ rstate' = "returned"
            /\ result' = <<>>
            /\ UNCHANGED <<wire, data>>
       ELSE \E k \in 1..Min(Unpack(length_bytes) - Len(data), Len(wire)) :
            /\ data' = data \o Take(wire, k)
            /\ wire' = Drop(wire, k)
            /\ UNCHANGED <<rstate, result>>
    /\ UNCHANGED <<mode, signalled, served, pc, stdin, length_bytes, sent, got, raw>>

\* data.decode('utf-8') and json.loads; both exceptions are caught and None
\* is returned.
Decode ==
    /\ pc = "read"
    /\ rstate = "payload"
    /\ Len(data) = Unpack(length_bytes)
    /\ rstate' = "returned"
    /\ result' = IF Utf8Valid(data) THEN loads(data) ELSE <<>>
    /\ got' = got \o (IF Utf8Valid(data) THEN loads(data) ELSE <<>>)
    /\ UNCHANGED <<mode, signalled, served, pc, stdin, wire, length_bytes, data, sent,
                   raw>>

\* main() on read_message's return value: a None message is handled as in
\* AfterRead, any other message is served and read_message is called again.
Returned ==
    /\ pc = "read"
    /\ rstate = "returned"
    /\ pc' = IF result = <<>> THEN AfterRead([kind |-> "eof"]) ELSE "read"
    /\ IF result = <<>> /\ AfterRead([kind |-> "eof"]) = "done"
       THEN UNCHANGED <<rstate, length_bytes, data>>
       ELSE rstate' = "header" /\ length_bytes' = <<>> /\ data' = <<>>
    /\ UNCHANGED <<mode, signalled, served, stdin, wire, result, sent, got, raw>>

\* The argument of the sys.exit call in handle_signal.
SysExitArg == 0

\* The exit status of the process once main() is left: the argument of
\* sys.exit, or 0 when main() returns.
ExitStatus == IF exit_reason = "SystemExit" THEN SysExitArg ELSE 0

\* SIGTERM or SIGINT is delivered while main() runs: handle_signal calls
\* sys.exit(0) in pool-worker mode, which unwinds main(), and returns without
\* doing anything in standalone mode, where the interrupted read resumes.
Signal ==
    /\ ~signalled
    /\ pc # "done"
    /\ signalled' = TRUE
    /\ IF mode = "pool-worker"
       THEN pc' = "done" /\ exit_reason' = "SystemExit"
       ELSE UNCHANGED <<pc, exit_reason>>
    /\ UNCHANGED <<env, stdin, stdout, clock, request, response, bridge,
                   accepted, written, last_written, deleted, channel,
                   compiler, adapter, synced>>

FrameNext ==
    \/ \E m \in Messages : WriteMessage(m)
    \/ \E bs \in RawBytes : WriteRaw(bs)
    \/ CloseStream
    \/ ReadHeader
    \/ ReadPayload
    \/ Decode
    \/ Returned
    \/ Signal

FrameSpec == FrameInit /\ [][FrameNext]_vars

\* ================================================== signature compiler
\* _get_or_create_signature_class and _create_signature_class on field names
\* kept as sequences of characters, the dynamic branch of execute_program on
\* the field mapping they return, and _parse_gemini_response.
MaxCached == 2

CompilerInit == FrameInit /\ mode = "standalone"

\* What the steps of the signature compiler leave alone.
uncompiled == <<env, pc, stdin, stdout, clock, exit_reason, request, response,
                bridge, accepted, written, last_written, deleted, channel,
                signalled, adapter, synced>>

\* DSPyBridge._get_or_create_signature_class(d): the cached tuple, or the
\* tuple _create_signature_class returns, cached; an exception leaves the
\* cache as it was.
GetOrCreate(d) ==
    LET key == signature_key(d)
        r == _create_signature_class(d)
    IN /\ IF key \in DOMAIN signature_cache
          THEN /\ ret' = [NoReturn EXCEPT
                            !.op = "compile", !.status = "returned",
                            !.class = signature_cache[key].class,
                            !.field_mapping = signature_cache[key].field_mapping,
                            !.slots = signature_cache[key].slots]
               /\ UNCHANGED <<signature_cache, class_count>>
          ELSE IF r.status = "returned"
          THEN /\ Cardinality(DOMAIN signature_cache) < MaxCached
               /\ class_count' = class_count + 1
               /\ signature_cache' =
                    Put(signature_cache, key,
                        [class |-> class_count + 1,
                         field_mapping |-> r.field_mapping, slots |-> r.slots])
               /\ ret' = [NoReturn EXCEPT
                            !.op = "compile", !.status = "returned",
                            !.class = class_count + 1,
                            !.field_mapping = r.field_mapping,
                            !.slots = r.slots]
          ELSE /\ ret' = [NoReturn EXCEPT !.op = "compile", !.status = r.status]
               /\ UNCHANGED <<signature_cache, class_count>>
       /\ UNCHANGED uncompiled

Names(fields) == {fields[i] : i \in 1..Len(fields)}

\* Outputs keyed by the sanitized names instead of the original ones.
DynamicOutputs_SanitizedKeys(key, present) ==
    LET fm == signature_cache[key].field_mapping
        outs == {fm[n] : n \in Names(Get(key, "outputs"))}
    IN [n \in outs |-> IF n \in present THEN <<"value of", n>>
                       ELSE <<"not found", n>>]

\* The output extraction of execute_program's dynamic branch: for every
\* entry of field_mapping whose original name is an output of signature_def,
\* getattr(result, sanitized_name) or the placeholder string.
DynamicOutputs(key, present) ==
    LET fm == signature_cache[key].field_mapping
        outs == {n \in DOMAIN fm : n \in Names(Get(key, "outputs"))}
    IN [n \in outs |-> IF fm[n] \in present THEN <<"value of", fm[n]>>
                       ELSE <<"not found", fm[n]>>]

\* The keyword arguments of program(**sanitized_inputs).
SanitizedInputs(key, supplied) ==
    LET fm == signature_cache[key].field_mapping
    IN {IF n \in DOMAIN fm THEN fm[n] ELSE n : n \in supplied}

\* execute_program on a record of the dynamic path whose signature is the
\* cached one under key: the caller supplies inputs keyed by the original
\* input names (and possibly one more), the executable returns a result that
\* has the attributes in present.
ExecuteDynamic(key, extra, present) ==
    /\ key \in DOMAIN signature_cache
    /\ ret' = [NoReturn EXCEPT
                 !.op = "execute", !.status = "returned",
                 !.class = signature_cache[key].class,
                 !.field_mapping = signature_cache[key].field_mapping,
                 !.kwargs = SanitizedInputs(key, Names(Get(key, "inputs"))
                                                   \cup extra),
                 !.outputs = DynamicOutputs(key, present)]
    /\ UNCHANGED <<signature_cache, class_count>>
    /\ UNCHANGED uncompiled

\* ------------------------------------------------ Gemini response parsing
NL == "\n"
Whitespace == {" ", NL}

RECURSIVE LStrip(_)
LStrip(t) == IF t # <<>> /\ Head(t) \in Whitespace THEN LStrip(Tail(t)) ELSE t
RECURSIVE RStrip(_)
RStrip(t) ==
    IF t # <<>> /\ t[Len(t)] \in Whitespace
    THEN RStrip(SubSeq(t, 1, Len(t) - 1)) ELSE t
\* str.strip()
Strip(t) == RStrip(LStrip(t))

\* The first index of character c in t, 0 when there is none.
Find(t, c) ==
    IF \E i \in 1..Len(t) : t[i] = c
    THEN CHOOSE i \in 1..Len(t) : t[i] = c /\ \A j \in 1..(i - 1) : t[j] # c
    ELSE 0

\* str.split('\n')
RECURSIVE Split(_)
Split(t) ==
    IF Find(t, NL) = 0 THEN <<t>>
    ELSE <<SubSeq(t, 1, Find(t, NL) - 1)>>
           \o Split(SubSeq(t, Find(t, NL) + 1, Len(t)))

\* str.lower()
Lower(t) ==
    [i \in 1..Len(t) |-> IF t[i] = "A" THEN "a" ELSE IF t[i] = "B" THEN "b"
                         ELSE t[i]]

\* str.startswith
StartsWith(t, prefix) ==
    Len(t) >= Len(prefix) /\ SubSeq(t, 1, Len(prefix)) = prefix

\* line.lower().startswith(f"{field_name.lower()}:")
LineMatches(line, name) == StartsWith(Lower(line), Lower(name) \o <<":">>)

\* line.split(':', 1)[1].strip()
AfterColon(line) == Strip(SubSeq(line, Find(line, ":") + 1, Len(line)))

\* The value found for one field by the inner loop: the text after the colon
\* of the first matching line, "" when no line matches.
FieldValue(lines, name) ==
    IF \E i \in 1..Len(lines) : LineMatches(lines[i], name)
    THEN AfterColon(lines[CHOOSE i \in 1..Len(lines) :
                            /\ LineMatches(lines[i], name)
                            /\ \A j \in 1..(i - 1) : ~LineMatches(lines[j], name)])
    ELSE <<>>

\* DSPyBridge._parse_gemini_response
_parse_gemini_response(output_fields, response_text) ==
    LET lines == Split(Strip(response_text)) IN
    [name \in Names(output_fields) |->
       IF FieldValue(lines, name) = <<>> /\ Len(output_fields) = 1
       THEN Strip(response_text)
       ELSE FieldValue(lines, name)]

\* Output field lists of Gemini programs and raw responses of the model.
GeminiOutputs == {<<N_a>>, <<N_a, N_b>>, <<N_b>>}
Responses ==
    {<<"x">>,
     <<"a", ":", "x">>,
     <<"A", ":", " ", "x">>,
     <<"a", ":">>,
     <<"a", ":", NL, "x">>,
     <<"x", NL, "a", ":", "e", NL, "a", ":", "z">>,
     <<"b", ":", "e">>,
     <<"a", ":", "x", ":", "e">>,
     <<" ", "a", ":", "x", " ">>,
     <<"a", ":", "x", NL, "B", ":", "e">>,
     <<"x", NL, " ", "a", ":", "e">>}

\* The parsing step of execute_gemini_program.
ParseGemini(output_fields, response_text) ==
    /\ ret' = [NoReturn EXCEPT
                 !.op = "parse", !.status = "returned",
                 !.parsed = _parse_gemini_response(output_fields, response_text)]
    /\ UNCHANGED <<signature_cache, class_count>>
    /\ UNCHANGED uncompiled

CompilerNext ==
    \/ \E d \in SignatureDefs : GetOrCreate(d)
    \/ \E key \in DOMAIN signature_cache :
         \E extra \in {{}, {N_b}} :
           \E present \in SUBSET {signature_cache[key].field_mapping[n]
                                    : n \in Names(Get(key, "outputs"))} :
             ExecuteDynamic(key, extra, present)
    \/ \E o \in GeminiOutputs : \E t \in Responses : ParseGemini(o, t)

CompilerSpec == CompilerInit /\ [][CompilerNext]_vars

\* ========================================================= gRPC adapter
\* dspex_adapters/dspy_grpc.py: the tools of DSPyGRPCHandler on the
\* module-level dict _MODULE_STORAGE, which every adapter instance shares.
\* A name is the sequence of the pieces of the string, so that
\* f"signature_{name}" and str.startswith('signature_') are computed.
SIGNATURE_PREFIX == "signature_"
DEFAULT_LM == <<"default_lm">>

\* f"signature_{name}"
SignatureKey(name) == <<SIGNATURE_PREFIX>> \o name

\* k.startswith('signature_')
StartsWithSignature(k) == k # <<>> /\ Head(k) = SIGNATURE_PREFIX

\* The names the peers pass to the tools.
ObjectNames == {<<"p1">>, DEFAULT_LM, SignatureKey(<<"s1">>)}
SignatureNames == {<<"s1">>}

\* The values a peer hands to store_object, written as Python literals, and
\* the objects the other tools store.
Data == {"1", "'x'", "0", "None"}
Falsy == {"0", "0.0", "''", "[]", "{}", "None", "False"}

\* bool(obj)
Bool(obj) == obj \notin Falsy

\* The adapter objects a request may reach.
Instances == {1, 2}

\* [k for k in _MODULE_STORAGE.keys() if not k.startswith('signature_')]
StatsPrograms(storage) == {k \in DOMAIN storage : ~StartsWithSignature(k)}

\* [k for k in _MODULE_STORAGE.keys() if not k.startswith('signature_')
\*  and not k == 'default_lm']
ListedPrograms(storage) ==
    {k \in DOMAIN storage : ~StartsWithSignature(k) /\ ~(k = DEFAULT_LM)}

Reply(tool, success) == [NoReply EXCEPT !.tool = tool, !.success = success]

\* DSPyGRPCHandler.get_stats
get_stats_tool(storage) ==
    [Reply("get_stats", TRUE) EXCEPT
        !.count = Cardinality(StatsPrograms(storage)),
        !.names = StatsPrograms(storage)]

\* DSPyGRPCHandler.ping
ping_tool(storage) ==
    [Reply("ping", TRUE) EXCEPT !.count = Cardinality(StatsPrograms(storage))]

\* DSPyGRPCHandler.list_programs
list_programs_tool(storage) ==
    [Reply("list_programs", TRUE) EXCEPT
        !.count = Cardinality(ListedPrograms(storage)),
        !.names = ListedPrograms(storage)]

\* DSPyGRPCHandler.retrieve_object: obj = _MODULE_STORAGE.get(name); if obj:
retrieve_object(storage, name) ==
    IF name \in DOMAIN storage /\ Bool(storage[name])
    THEN [Reply("retrieve_object", TRUE) EXCEPT !.name = name]
    ELSE [Reply("retrieve_object", FALSE) EXCEPT !.name = name]

\* What the adapter's steps leave alone.
unadapted == <<env, pc, stdin, stdout, clock, exit_reason, request, response,
               bridge, accepted, written, last_written, deleted, channel,
               signalled, compiler, synced>>

AdapterInit ==
    /\ FrameInit
    /\ mode = "standalone"

\* configure_lm(model_type, api_key=...): an unknown model type and a Gemini
\* model without a key are refused; building the LM may raise; on success
\* the LM is stored under 'default_lm'.
ConfigureLm(model_type, api_key) ==
    /\ \E raised \in BOOLEAN :
        LET refused == \/ model_type \notin {"openai", "anthropic", "gemini"}
                       \/ model_type = "gemini" /\ api_key = None
                          /\ ~GEMINI_API_KEY
        IN IF refused \/ raised
           THEN /\ reply' = Reply("configure_lm", FALSE)
                /\ UNCHANGED _MODULE_STORAGE
           ELSE /\ reply' = Reply("configure_lm", TRUE)
                /\ _MODULE_STORAGE' = Put(_MODULE_STORAGE, DEFAULT_LM, "lm")
    /\ UNCHANGED unadapted

\* create_signature(name, inputs, outputs): the class is stored under
\* f"signature_{name}"; a field without a name raises.
CreateSignature(name) ==
    /\ \E raised \in BOOLEAN :
        IF ~DSPY_AVAILABLE \/ raised
        THEN /\ reply' = [Reply("create_signature", FALSE) EXCEPT !.name = name]
             /\ UNCHANGED _MODULE_STORAGE
        ELSE /\ reply' = [Reply("create_signature", TRUE) EXCEPT !.name = name]
             /\ _MODULE_STORAGE' =
                  Put(_MODULE_STORAGE, SignatureKey(name), "class")
    /\ UNCHANGED unadapted

\* create_program(name, program_type, signature_name): an unknown program
\* type is refused, the dspy constructor may raise; the program is stored
\* under name.
CreateProgram(name, program_type) ==
    /\ \E raised \in BOOLEAN :
        IF \/ ~DSPY_AVAILABLE
           \/ program_type \notin {"predict", "chain_of_thought", "react",
                                   "program_of_thought"}
           \/ raised
        THEN /\ reply' = [Reply("create_program", FALSE) EXCEPT !.name = name]
             /\ UNCHANGED _MODULE_STORAGE
        ELSE /\ reply' = [Reply("create_program", TRUE) EXCEPT !.name = name]
             /\ _MODULE_STORAGE' = Put(_MODULE_STORAGE, name, "program")
    /\ UNCHANGED unadapted

\* store_object(name, object_type, data)
StoreObject(name, obj) ==
    /\ _MODULE_STORAGE' = Put(_MODULE_STORAGE, name, obj)
    /\ reply' = [Reply("store_object", TRUE) EXCEPT !.name = name]
    /\ UNCHANGED unadapted

\* retrieve_object(name), on any adapter instance
RetrieveObject(instance, name) ==
    /\ reply' = retrieve_object(_MODULE_STORAGE, name)
    /\ UNCHANGED <<_MODULE_STORAGE, unadapted>>

\* delete_program(name)
DeleteProgram(name) ==
    /\ IF name \in DOMAIN _MODULE_STORAGE
       THEN /\ _MODULE_STORAGE' = Del(_MODULE_STORAGE, name)
            /\ reply' = [Reply("delete_program", TRUE) EXCEPT !.name = name]
       ELSE /\ reply' = [Reply("delete_program", FALSE) EXCEPT !.name = name]
            /\ UNCHANGED _MODULE_STORAGE
    /\ UNCHANGED unadapted

\* reset_state(): _MODULE_STORAGE.clear()
ResetState ==
    /\ _MODULE_STORAGE' = <<>>
    /\ reply' = Reply("reset_state", TRUE)
    /\ UNCHANGED unadapted

GetStats ==
    /\ reply' = get_stats_tool(_MODULE_STORAGE)
    /\ UNCHANGED <<_MODULE_STORAGE, unadapted>>

Ping ==
    /\ reply' = ping_tool(_MODULE_STORAGE)
    /\ UNCHANGED <<_MODULE_STORAGE, unadapted>>

ListPrograms ==
    /\ reply' = list_programs_tool(_MODULE_STORAGE)
    /\ UNCHANGED <<_MODULE_STORAGE, unadapted>>

AdapterNext ==
    \/ \E model_type \in {"openai", "gemini", "unknown"},
          api_key \in {None, "key"} : ConfigureLm(model_type, api_key)
    \/ \E name \in SignatureNames : CreateSignature(name)
    \/ \E name \in ObjectNames, program_type \in {"predict", "unknown"} :
          CreateProgram(name, program_type)
    \/ \E name \in ObjectNames, obj \in Data : StoreObject(name, obj)
    \/ \E instance \in Instances, name \in ObjectNames :
          RetrieveObject(instance, name)
    \/ \E name \in ObjectNames : DeleteProgram(name)
    \/ ResetState
    \/ GetStats
    \/ Ping
    \/ ListPrograms

AdapterSpec == AdapterInit /\ [][AdapterNext]_vars

\* ============================================== variable-aware programs
\* execute_program on a program created by _create_variable_aware_program:
\* the language-model check, program.sync_variables_sync() and the call of
\* the program.  VariableAwareMixin lives in snakepit_bridge, outside these
\* sources; sync_variables_sync is modelled on what test_stage2_integration
\* asserts of it.
MaxExecutions == 2

\* The variables of the session and the module attributes bound to them.
VariableNames == {"temperature", "max_tokens"}
VariableValues == {7, 9}
Attributes == {"temperature", "max_tokens"}

\* module.get_bindings(): attribute -> variable name
Bindings ==
    {[a \in {"temperature"} |-> "temperature"],
     [a \in Attributes |-> a]}

\* The value get_variable returns for the variable bound to attribute a.
Current(prog, ctx, a) == ctx.values[prog.bindings[a]]

\* The bound attributes whose value differs from the variable's.
Changed(prog, ctx) ==
    {a \in DOMAIN prog.bindings : prog.attrs[a] # <<Current(prog, ctx, a)>>}

\* VariableAwareMixin.sync_variables_sync: every bound attribute is set to
\* the value of its variable and the attributes whose value changed are
\* returned; when get_variable raises nothing is set and {} is returned.
sync_variables_sync(prog, ctx) ==
    IF ctx.failing
    THEN [program |-> prog, updates |-> <<>>]
    ELSE [program |->
            [prog EXCEPT !.attrs =
               [a \in DOMAIN @ |-> IF a \in DOMAIN prog.bindings
                                   THEN <<Current(prog, ctx, a)>>
                                   ELSE @[a]]],
          updates |-> [a \in Changed(prog, ctx) |-> Current(prog, ctx, a)]]

\* Synced without the call of sync_variables_sync.
Synced_Never(info, prog, ctx, upd) == [program |-> prog, updates |-> upd]

\* if program_info.get('variable_aware') and hasattr(program,
\* 'sync_variables_sync'): updates = program.sync_variables_sync()
Synced(info, prog, ctx, upd) ==
    IF info.variable_aware /\ prog.has_sync
    THEN sync_variables_sync(prog, ctx)
    ELSE [program |-> prog, updates |-> upd]

\* What the steps on a variable-aware program leave alone.
unsynced == <<env, pc, stdin, stdout, clock, exit_reason, request, response,
              accepted, written, last_written, deleted, channel, signalled,
              compiler, adapter>>

VariableInit ==
    /\ FrameInit
    /\ mode = "standalone"

\* configure_lm, which execute_program's language-model check depends on;
\* a failure is counted in error_count.
ConfigureBridgeLm(args) ==
    /\ bridge.error_count < MaxExecutions
    /\ \E o \in configure_lm(bridge, args) : bridge' = o.bridge
    /\ UNCHANGED <<unsynced, synced>>

\* _create_variable_aware_program: the session context and the module with
\* its bindings; binding an attribute does not read its variable.
CreateVariableAware(bindings) ==
    /\ ~program_info.created
    /\ \E values \in [VariableNames -> VariableValues] :
        session_context' = [values |-> values, failing |-> FALSE]
    /\ program' = [attrs |-> [a \in Attributes |-> <<>>],
                   bindings |-> bindings, has_sync |-> TRUE]
    /\ program_info' = [created |-> TRUE, variable_aware |-> TRUE,
                        execution_count |-> 0]
    /\ UNCHANGED <<unsynced, bridge, updates, invoked>>

\* create_program on the dynamic or the legacy path: a dspy.Predict, which
\* has no sync_variables_sync and no bindings.
CreatePlain ==
    /\ ~program_info.created
    /\ program_info' = [created |-> TRUE, variable_aware |-> FALSE,
                        execution_count |-> 0]
    /\ program' = [attrs |-> [a \in Attributes |-> <<>>], bindings |-> <<>>,
                   has_sync |-> FALSE]
    /\ session_context' =
         [values |-> [v \in VariableNames |-> 7], failing |-> FALSE]
    /\ UNCHANGED <<unsynced, bridge, updates, invoked>>

\* session_context.update_variable(name, value), by any client of the
\* session.
UpdateVariable(name, value) ==
    /\ program_info.created
    /\ session_context' = [session_context EXCEPT !.values[name] = value]
    /\ UNCHANGED <<unsynced, bridge, program_info, program, updates, invoked>>

\* get_variable starts or stops raising (the variable is gone, the session
\* store cannot be reached).
SetFailing(failing) ==
    /\ program_info.created
    /\ session_context' = [session_context EXCEPT !.failing = failing]
    /\ UNCHANGED <<unsynced, bridge, program_info, program, updates, invoked>>

\* execute_program on the record: the language-model check, the sync, the
\* call of the program, which returns or raises, and the statistics.
ExecuteVariableAware ==
    /\ program_info.created
    /\ invoked.count < MaxExecutions
    /\ IF ~bridge.lm_configured /\ ~GEMINI_API_KEY
       THEN UNCHANGED <<bridge, synced>>
       ELSE /\ \E b1 \in AfterLmCheck(bridge) : bridge' = b1
            /\ LET s == Synced(program_info, program, session_context, updates)
               IN /\ program' = s.program
                  /\ updates' = s.updates
                  /\ invoked' = [count |-> invoked.count + 1,
                                 attrs |-> s.program.attrs]
            /\ \E returned \in BOOLEAN :
                 program_info' =
                   IF returned
                   THEN [program_info EXCEPT !.execution_count = @ + 1]
                   ELSE program_info
            /\ UNCHANGED session_context
    /\ UNCHANGED unsynced

VariableNext ==
    \/ \E args \in {NoArgs, [NoArgs EXCEPT !.model = "gemini-1.5-flash",
                                           !.api_key = "key"]} :
          ConfigureBridgeLm(args)
    \/ \E bindings \in Bindings : CreateVariableAware(bindings)
    \/ CreatePlain
    \/ \E name \in VariableNames, value \in VariableValues :
          UpdateVariable(name, value)
    \/ \E failing \in BOOLEAN : SetFailing(failing)
    \/ ExecuteVariableAware

VariableSpec == VariableInit /\ [][VariableNext]_vars

\* ================================================================ claims
\* A ReadFrame step that handed request' to handle_command.
Dispatched == pc = "read" /\ pc' = "respond"

\* Is the program map the storage scope of a command with these args:
\* standalone mode, or the anonymous session of a pool worker.
LocalScope(args) == mode = "standalone" \/ args.session_id = "anonymous"

\* C1: every envelope with a non-null id and command is answered by exactly
\* one frame carrying its id, written before the next frame is read.  With
\* the peer still reading, the write step of every accepted envelope adds one
\* frame to stdout and that frame carries the envelope's id.
C1_ExactlyOneResponse ==
    [][(pc = "respond" /\ stdout' = "open")
         => (written' = written + 1 /\ last_written'.id = request.id
             /\ pc' = "read")]_vars

\* C2: in a scope backed by the local program map, create_program with an id
\* that already has a record fails and leaves the map, with that record's
\* execution_count and last_executed, unchanged.
C2_DuplicateCreateRejected ==
    [][(/\ Dispatched
        /\ request'.command = "create_program"
        /\ LocalScope(request'.args)
        /\ request'.args.id \in DOMAIN bridge.programs)
         => (~response'.success /\ bridge'.programs = bridge.programs)]_vars

C4_DeleteThenExecuteFails ==
    [][(/\ Dispatched
        /\ request'.command = "execute_program"
        /\ request'.args.program_data = None
        /\ request'.args.program_id \in deleted)
         => (/\ ~response'.success
             /\ response'.value = "Program not found"
             /\ bridge'.programs = bridge.programs)]_vars

\* C4 witness: execute_program(p) without program_data was just dispatched
\* for an id that delete_program removed.
C4_Witness ==
    /\ pc = "respond"
    /\ request.command = "execute_program"
    /\ request.args.program_data = None
    /\ request.args.program_id \in deleted

ExecuteCommands == {"execute_program", "execute_gemini_program"}
DestroyCommands == {"delete_program", "cleanup", "reset_state"}

\* C5: per program id the only transitions of the local map are nonexistent
\* to created (a successful create, with execution_count 0 and last_executed
\* null), created to created (an execute) and created to nonexistent
\* (delete_program, cleanup, reset_state); a create never replaces a live
\* record.
C5_Lifecycle ==
    [][\A p \in ProgIds :
         LET before == p \in DOMAIN bridge.programs
             after == p \in DOMAIN bridge'.programs
         IN /\ (~before /\ after)
                 => /\ request'.command \in CreateCommands
                    /\ response'.success
                    /\ bridge'.programs[p].execution_count = 0
                    /\ bridge'.programs[p].last_executed = <<>>
            /\ (before /\ after /\ bridge'.programs[p] # bridge.programs[p])
                 => request'.command \in ExecuteCommands
            /\ (before /\ ~after)
                 => request'.command \in DestroyCommands
      ]_vars

\* The commands of C6 that lack a required argument or name an unsupported
\* provider/model.
ValidationFailure(req) ==
    /\ req.args.mapping
    /\ \/ req.command = "create_program" /\ ~Truthy(req.args.id)
       \/ /\ req.command \in {"execute_program", "delete_program",
                              "get_program_info"}
          /\ ~Truthy(req.args.program_id)
       \/ /\ req.command = "configure_lm"
          /\ \/ ~Truthy(req.args.model)
             \/ ~Truthy(req.args.api_key)
             \/ ~(Provider(req.args) = "google"
                  /\ StartsWithGemini(req.args.model))

\* C6: a command that fails for a missing or invalid required argument is
\* answered with success = false and is counted exactly once in error_count.
C6_ValidationFailureEnvelope ==
    [][(Dispatched /\ ValidationFailure(request'))
         => (/\ ~response'.success
             /\ bridge'.error_count = bridge.error_count + 1)]_vars

\* C7: a complete frame whose payload is not valid UTF-8 or not valid JSON is
\* skipped in both modes: it never ends the main loop.
C7_UndecodableFrameSkipped ==
    pc = "done" => exit_reason \notin {"bad_utf8", "bad_json"}

\* C8: no payload that decodes as JSON (null, an array, a number, a string,
\* an object with or without id, command and args) ends the main loop.
C8_JsonPayloadNeverEndsLoop ==
    pc = "done" => exit_reason \notin {"json_null", "non_object", "no_id",
                                       "no_command", "request"}

\* C9: when read_message meets the end of the stream, main() leaves the loop
\* in standalone mode, and in pool-worker mode it stays in the loop and reads
\* again.
C9_EndOfStream ==
    [][(pc = "read" /\ clock' = clock + 1 /\ stdin' = "eof")
         => IF mode = "standalone"
            THEN pc' = "done" /\ exit_reason' \in {"eof", "truncated"}
            ELSE pc' = "read" /\ exit_reason' = "running"]_vars

\* C9 witness: a pool worker back at the read after its stream has ended.
C9_Witness ==
    mode = "pool-worker" /\ stdin = "eof" /\ pc = "read" /\ clock >= 2

\* C10: a BrokenPipeError raised while writing a success or an error response
\* does not end the loop in either mode and does not reach the command layer:
\* main() goes back to the read with the bridge untouched, and the requests
\* read afterwards are still handed to handle_command.
C10_BrokenPipeSurvived ==
    [][/\ (pc = "respond" /\ stdout' = "broken")
            => (/\ pc' = "read"
                /\ exit_reason' = exit_reason
                /\ bridge' = bridge
                /\ written' = written)
       /\ (Dispatched /\ stdout = "broken")
            => (/\ request'.command # "reset_state"
                    => bridge'.command_count = bridge.command_count + 1
                /\ response'.id = request'.id)
      ]_vars

\* C10 witness: a request dispatched successfully after an earlier response
\* was lost to a broken pipe.
C10_Witness ==
    /\ pc = "respond"
    /\ stdout = "broken"
    /\ written < accepted - 1
    /\ response.success

\* C11: a decoded envelope whose id or command is missing or null produces
\* no outbound frame and nothing to write, leaves the bridge (command_count,
\* error_count and the program map) unchanged, and main() goes back to the
\* read.
C11_NullIdOrCommandSkipped ==
    [][\A f \in Frames :
         (f.kind \in {"no_id", "no_command"} /\ Serve(f))
           => (/\ pc' = "read"
               /\ exit_reason' = "running"
               /\ bridge' = bridge
               /\ accepted' = accepted
               /\ written' = written
               /\ last_written' = last_written)]_vars

\* C11 witness: a standalone bridge that has read two frames, answered one
\* and is back at the read with its stream open: the other frame was an
\* envelope without id or command.
C11_Witness ==
    /\ mode = "standalone"
    /\ pc = "read"
    /\ stdin = "open"
    /\ clock = 2
    /\ accepted = 1
    /\ written = 1

\* read_message returned because the stream ended inside a frame: after 1 to
\* 3 header bytes, or after the header and before the last payload byte.
Truncated ==
    /\ rstate = "returned"
    /\ \/ Len(length_bytes) \in 1..3
       \/ Len(length_bytes) = 4 /\ Len(data) < Unpack(length_bytes)

\* C12: read_message reports end-of-stream (None) only when the stream ends
\* at byte offset 0 of a frame; when it ends inside a frame the value
\* returned differs from the one returned at end-of-stream.
C12_TruncationDistinguished == Truncated => result # <<>>

\* The messages written and not yet returned by read_message.
Pending == SubSeq(sent, Len(got) + 1, Len(sent))

C14_EmptyFrameAccepted ==
    (/\ rstate = "returned"
     /\ Len(length_bytes) = 4
     /\ Unpack(length_bytes) = 0)
      => pc # "done"

\* C15: in pool-worker mode the commands that carry session_id "anonymous"
\* work on the local program map as they do in standalone mode:
\* list_programs reports every record of the map, execute_program runs on
\* the local record and increments its execution_count, delete_program
\* removes the record.
C15_AnonymousIsLocal ==
    [][(/\ Dispatched
        /\ mode = "pool-worker"
        /\ request'.args.mapping
        /\ request'.args.session_id = "anonymous")
         => LET args == request'.args
                p == request'.args.program_id
            IN /\ request'.command = "list_programs"
                    => /\ response'.success
                       /\ program_list(bridge, args) = DOMAIN bridge.programs
               /\ (/\ request'.command = "execute_program"
                   /\ p \in DOMAIN bridge.programs
                   /\ response'.success)
                    => bridge'.programs[p].execution_count
                         = bridge.programs[p].execution_count + 1
               /\ (request'.command = "delete_program"
                   /\ p \in DOMAIN bridge.programs)
                    => /\ response'.success
                       /\ bridge'.programs = Del(bridge.programs, p)
      ]_vars

\* Does a command with these args carry a named session id.
NamedSession(args) ==
    args.mapping /\ Truthy(args.session_id) /\ args.session_id # "anonymous"

\* C16: in pool-worker mode create_program with a named session_id returns
\* status created, and no command that carries a named session_id adds,
\* changes or removes a record of the local program map.
C16_NamedSessionNeverLocal ==
    [][(Dispatched /\ mode = "pool-worker" /\ NamedSession(request'.args))
         => /\ bridge'.programs = bridge.programs
            /\ (/\ request'.command = "create_program"
                /\ Truthy(request'.args.id)
                /\ ~(request'.args.variable_aware /\ VARIABLE_AWARE_AVAILABLE))
                 => (response'.success /\ response'.value = "created")
      ]_vars

C18_RecreateMatchesCreate ==
    [][(/\ Dispatched
        /\ request'.command = "execute_program"
        /\ request'.args.mapping
        /\ Stateless(request'.args))
         => LET key == request'.args.program_data
                created == ProgramInfo(SnapshotArgs(key), 0)
                recreated == _recreate_program_from_data(program_data_of(key))
            IN /\ recreated.fallback_used = created.fallback_used
               /\ recreated.field_mapping = created.field_mapping
               /\ IsDynamic(recreated) = IsDynamic(created)
      ]_vars

\* C19: in standalone mode list_programs succeeds and its program_list has
\* one entry per record of the program map.
C19_ListProgramsComplete ==
    [][(Dispatched /\ mode = "standalone"
        /\ request'.command = "list_programs")
         => /\ response'.success
            /\ program_list(bridge, request'.args) = DOMAIN bridge.programs
      ]_vars

\* C20: create_program with a signature definition that cannot be compiled
\* (inputs or outputs missing or empty, or a field without a name) returns
\* status created and stores a record whose fallback_used is true and which
\* execute_program runs as question -> answer.
C20_FallbackFlag ==
    [][(/\ Dispatched
        /\ request'.command = "create_program"
        /\ request'.args.mapping
        /\ Truthy(request'.args.id)
        /\ LocalScope(request'.args)
        /\ ~(request'.args.variable_aware /\ VARIABLE_AWARE_AVAILABLE)
        /\ ~Compiles(request'.args.signature)
        /\ request'.args.id \notin DOMAIN bridge.programs)
         => LET p == request'.args.id IN
            /\ response'.success
            /\ response'.value = "created"
            /\ p \in DOMAIN bridge'.programs
            /\ bridge'.programs[p].fallback_used
            /\ Outputs(bridge'.programs[p]) = "answer"
      ]_vars

\* Are d1 and d2 one definition up to the order of their members and of
\* their field lists.
SameDefinition(d1, d2) ==
    \A k \in {"inputs", "outputs"} :
      /\ Len(Get(d1, k)) = Len(Get(d2, k))
      /\ Names(Get(d1, k)) = Names(Get(d2, k))

\* C21: _get_or_create_signature_class called with a definition that was
\* compiled before, possibly with its members or its field lists in another
\* order, returns the cached class and a field_mapping equal to the cached
\* one, and creates no class.
C21_CacheIdempotent ==
    [][\A d \in SignatureDefs : \A d2 \in SignatureDefs :
         (/\ GetOrCreate(d)
          /\ SameDefinition(d, d2)
          /\ signature_key(d2) \in DOMAIN signature_cache)
           => LET cached == signature_cache[signature_key(d2)] IN
              /\ ret'.status = "returned"
              /\ ret'.class = cached.class
              /\ ret'.field_mapping = cached.field_mapping
              /\ class_count' = class_count
      ]_vars

\* C22: the field mapping of every compiled signature is injective: two
\* different original names never map to one sanitized name.
C22_FieldMappingInjective ==
    \A key \in DOMAIN signature_cache :
      LET fm == signature_cache[key].field_mapping IN
      \A n1 \in DOMAIN fm : \A n2 \in DOMAIN fm :
        fm[n1] = fm[n2] => n1 = n2

\* C23: every sanitized name recorded in a field mapping is non-empty and
\* starts neither with a digit nor with an underscore.
C23_SanitizedNames ==
    /\ \A key \in DOMAIN signature_cache :
         LET fm == signature_cache[key].field_mapping IN
         \A n \in DOMAIN fm :
           fm[n] # <<>> /\ fm[n][1] \notin Digits \cup {"_"}
    /\ ret.op = "compile" =>
         \A n \in DOMAIN ret.field_mapping :
           /\ ret.field_mapping[n] # <<>>
           /\ ret.field_mapping[n][1] \notin Digits \cup {"_"}

\* C23 witness: a compiled signature with a field named by non-word
\* characters only and one with a field whose name starts with a digit.
C23_Witness ==
    /\ \E key \in DOMAIN signature_cache :
         N_quest \in DOMAIN signature_cache[key].field_mapping
    /\ \E key \in DOMAIN signature_cache :
         N_1a \in DOMAIN signature_cache[key].field_mapping

\* C24: on the dynamic path the outputs execute_program returns are keyed by
\* exactly the original names of the signature's output fields; the value
\* under a key is the result's attribute of the sanitized name, or a
\* placeholder when the result has no such attribute.
C24_DynamicOutputKeys ==
    [][\A key \in DOMAIN signature_cache : \A extra \in {{}, {N_b}} :
         \A present \in SUBSET {signature_cache[key].field_mapping[n]
                                  : n \in Names(Get(key, "outputs"))} :
           ExecuteDynamic(key, extra, present)
             => /\ DOMAIN ret'.outputs = Names(Get(key, "outputs"))
                /\ \A n \in DOMAIN ret'.outputs :
                     LET sanitized_name == signature_cache[key].field_mapping[n]
                     IN /\ sanitized_name \in present
                             => ret'.outputs[n] = <<"value of", sanitized_name>>
                        /\ sanitized_name \notin present
                             => ret'.outputs[n][1] = "not found"
      ]_vars

\* C24 witness: an execution whose signature has an output named by non-word
\* characters only, one output found on the result and one missing.
C24_Witness ==
    /\ ret.op = "execute"
    /\ N_quest \in DOMAIN ret.outputs
    /\ \E n \in DOMAIN ret.outputs : ret.outputs[n][1] = "value of"
    /\ \E n \in DOMAIN ret.outputs : ret.outputs[n][1] = "not found"

\* C26: _parse_gemini_response gives every output field the text after the
\* first colon of the first response line that starts, whatever the case,
\* with "<field name>:"; a field no line matches gets the whole stripped
\* response when it is the only output field and the empty string otherwise.
C26_GeminiParse ==
    [][\A o \in GeminiOutputs : \A t \in Responses :
         ParseGemini(o, t)
           => LET lines == Split(Strip(t)) IN
              \A name \in Names(o) :
                ret'.parsed[name] =
                  IF \E i \in 1..Len(lines) : LineMatches(lines[i], name)
                  THEN FieldValue(lines, name)
                  ELSE IF Len(o) = 1 THEN Strip(t) ELSE <<>>
      ]_vars

\* The role the definition under key gives to the field named n.
RolesOf(key, n) ==
    {r \in {"input", "output"} :
       \/ r = "input" /\ n \in Names(Get(key, "inputs"))
       \/ r = "output" /\ n \in Names(Get(key, "outputs"))}

\* C30: every compiled signature has an input slot and an output slot, and
\* every sanitized name of its field mapping is a slot with the role of the
\* original field; a definition that leaves no input slot or no output slot
\* is not compiled.
C30_SlotsMatchRoles ==
    \A key \in DOMAIN signature_cache :
      LET fm == signature_cache[key].field_mapping
          slots == signature_cache[key].slots
      IN /\ \E n \in DOMAIN slots : slots[n] = "input"
         /\ \E n \in DOMAIN slots : slots[n] = "output"
         /\ \A n \in DOMAIN fm :
              fm[n] \in DOMAIN slots /\ slots[fm[n]] \in RolesOf(key, n)

\* C25: execute_program does not run the executable without a language
\* model: a call dispatched while lm_configured is false and after which it
\* is still false (no credential in the environment, or the implicit
\* configuration failed) is answered with failure and changes no
\* execution_count.
C25_NoExecutionWithoutLm ==
    [][(/\ Dispatched
        /\ request'.command = "execute_program"
        /\ ~bridge.lm_configured
        /\ ~bridge'.lm_configured)
         => (~response'.success /\ bridge'.programs = bridge.programs)]_vars

\* C27: reset_state leaves the program map empty and command_count and
\* error_count at zero, and reports the number of programs cleared and the
\* two counters as they stood when it cleared them (command_count with the
\* reset_state command itself counted by handle_command).
C27_ResetState ==
    [][(Dispatched /\ request'.command = "reset_state")
         => (/\ response'.success
             /\ response'.value = "reset"
             /\ bridge'.programs = EmptyMap
             /\ bridge'.command_count = 0
             /\ bridge'.error_count = 0
             /\ response'.report = <<Cardinality(DOMAIN bridge.programs),
                                     bridge.command_count + 1,
                                     bridge.error_count>>)]_vars

\* C27 witness: reset_state answered on a bridge that held one program and
\* had counted two commands, one of them failed.
C27_Witness ==
    /\ pc = "respond"
    /\ request.command = "reset_state"
    /\ response.report = <<1, 3, 1>>
    /\ bridge.programs = EmptyMap

\* C28: cleanup removes every record of the local program map, the records
\* of the anonymous session of a pool worker included, and reports as
\* programs_removed the number of records the map held before the call.
C28_Cleanup ==
    [][(Dispatched /\ request'.command = "cleanup")
         => (/\ response'.success
             /\ response'.value = "cleaned"
             /\ bridge'.programs = EmptyMap
             /\ response'.report = <<Cardinality(DOMAIN bridge.programs)>>)
      ]_vars

\* C28 witness: cleanup answered on a pool worker that held two records.
C28_Witness ==
    /\ mode = "pool-worker"
    /\ pc = "respond"
    /\ request.command = "cleanup"
    /\ response.report = <<2>>
    /\ bridge.programs = EmptyMap

\* C29: once SIGTERM or SIGINT has been delivered main() is left, in either
\* mode, and no further frame is read; in pool-worker mode the exit status
\* is 0.
C29_SignalStopsEngine ==
    signalled => (pc = "done" /\ (mode = "pool-worker" => ExitStatus = 0))

\* C31: once a shutdown command has been answered with status
\* shutting_down, main() leaves the loop: no further frame is read and no
\* further command is dispatched.
C31_ShutdownEndsLoop ==
    [][(pc = "respond" /\ response.success /\ response.value = "shutting_down")
         => pc' = "done"]_vars

\* C32: execute_gemini_program on a record that create_gemini_program did
\* not create, and execute_program on a record of the local map that
\* create_gemini_program created, are answered with failure and leave the
\* program map, that record's execution_count and last_executed included,
\* unchanged.
C32_PathsStaySeparate ==
    [][(/\ Dispatched
        /\ request'.args.mapping
        /\ request'.args.program_id \in DOMAIN bridge.programs
        /\ LET info == bridge.programs[request'.args.program_id] IN
           \/ /\ request'.command = "execute_gemini_program"
              /\ info.type # "gemini"
           \/ /\ request'.command = "execute_program"
              /\ ~Stateless(request'.args)
              /\ info.type = "gemini")
         => (~response'.success /\ bridge'.programs = bridge.programs)]_vars

\* C32 witness: execute_program was just refused on a Gemini record.
C32_Witness ==
    /\ pc = "respond"
    /\ request.command = "execute_program"
    /\ ~Stateless(request.args)
    /\ request.args.program_id \in DOMAIN bridge.programs
    /\ bridge.programs[request.args.program_id].type = "gemini"
    /\ ~response.success

\* C34: error_count never exceeds command_count.
C34_ErrorsBoundedByCommands == bridge.error_count <= bridge.command_count

\* C35: what a command did to the bridge is not undone when the write of
\* its response meets a broken pipe, and a create_program(p) retried after
\* such a loss, in a scope backed by the local map that holds p, is rejected
\* and leaves the map unchanged.
C35_EffectsSurviveLostResponse ==
    [][/\ (pc = "respond" /\ stdout' = "broken") => bridge' = bridge
       /\ (/\ Dispatched
           /\ stdout = "broken"
           /\ request'.command = "create_program"
           /\ request'.args.mapping
           /\ LocalScope(request'.args)
           /\ request'.args.id \in DOMAIN bridge.programs)
            => (~response'.success /\ bridge'.programs = bridge.programs)
      ]_vars

Compiling(d) ==
    /\ Dispatched
    /\ CompiledBy(request'.command, bridge, request'.args) = <<d>>

\* C36: the signature cache only grows.  No step removes an entry or
\* changes one; delete_program, cleanup, reset_state and shutdown leave the
\* cache as it is; an entry appears only on a step that compiled its
\* definition with success; and a definition that fails to compile is never
\* cached, so the next create or recreate that uses it misses and compiles
\* it again.
C36_CacheOnlyGrows ==
    [][/\ \A k \in DOMAIN signature_cache :
            /\ k \in DOMAIN signature_cache'
            /\ signature_cache'[k] = signature_cache[k]
       /\ (Dispatched /\ request'.command \in
             {"delete_program", "cleanup", "reset_state", "shutdown"})
            => signature_cache' = signature_cache
       /\ \A k \in DOMAIN signature_cache' \ DOMAIN signature_cache :
            \E sig \in SigDefs :
                /\ Compiling(DefinitionOf(sig))
                /\ k = signature_key(DefinitionOf(sig))
                /\ _create_signature_class(DefinitionOf(sig)).status = "returned"
       /\ \A sig \in SigDefs :
            (/\ Compiling(DefinitionOf(sig))
             /\ _create_signature_class(DefinitionOf(sig)).status # "returned")
              => /\ signature_cache' = signature_cache
                 /\ signature_key(DefinitionOf(sig)) \notin DOMAIN signature_cache'
      ]_vars

\* C36 witness: reset_state has just been answered, the program map is
\* empty and the cache still holds the class compiled before.
C36_Witness ==
    /\ pc = "respond"
    /\ request.command = "reset_state"
    /\ response.success
    /\ bridge.programs = EmptyMap
    /\ signature_cache # <<>>

\* The args of execute_program a caller of either class sends: the program
\* named under program_id, as DSPyBridge reads it, and under both id and
\* program_id.
ExecuteArgs ==
    ArgsFor("execute_program")
    \cup {[a EXCEPT !.id = a.program_id] : a \in ArgsFor("execute_program")}

\* C38: for a program of the local map that is not variable-aware,
\* EnhancedDSPyBridge.execute_program has the outcomes of
\* DSPyBridge.execute_program (result or exception, and bridge state after)
\* on the same args in the same state.
C38_EnhancedRefinesBase ==
    pc = "read" =>
        \A a \in ExecuteArgs :
            (/\ a.mapping
             /\ HasProgram(bridge, a.program_id)
             /\ bridge.programs[a.program_id].type # "variable_aware")
              => EnhancedDSPyBridge_execute_program(bridge, a, clock + 1)
                   = execute_program(bridge, a, clock + 1)

\* C39: the programs_count that get_stats and ping report equals the number
\* of names that list_programs returns.
C39_ProgramsCountMatchesList ==
    /\ get_stats_tool(_MODULE_STORAGE).count
         = Cardinality(list_programs_tool(_MODULE_STORAGE).names)
    /\ ping_tool(_MODULE_STORAGE).count
         = Cardinality(list_programs_tool(_MODULE_STORAGE).names)

\* C40: a name stored by store_object can be retrieved, from any adapter
\* instance, until delete_program(name) or reset_state: retrieve_object
\* succeeds for the name right after store_object stored under it, whatever
\* the value, and a name that can be retrieved still can after every step
\* other than delete_program of that name and reset_state.
C40_StoredObjectRetrievable ==
    [][\A name \in ObjectNames :
        /\ (reply'.tool = "store_object" /\ reply'.name = name
            /\ reply'.success)
             => retrieve_object(_MODULE_STORAGE', name).success
        /\ (/\ retrieve_object(_MODULE_STORAGE, name).success
            /\ reply'.tool # "reset_state"
            /\ ~(reply'.tool = "delete_program" /\ reply'.name = name))
             => retrieve_object(_MODULE_STORAGE', name).success
      ]_vars

\* A step in which execute_program called the program.
Invoking == invoked'.count = invoked.count + 1

\* The sync and the call of one execution of a variable-aware program: the
\* program is called with the attributes the sync left, which are the
\* current values of the bound variables; when get_variable raises the
\* sync returns no updates, sets nothing, and the program is called all the
\* same.
SyncThenCall ==
    /\ invoked'.attrs = program'.attrs
    /\ IF session_context.failing
       THEN updates' = <<>> /\ program' = program
       ELSE \A a \in DOMAIN program.bindings :
              program'.attrs[a] = <<Current(program, session_context, a)>>

\* C33 as stated: every execution of a variable-aware program syncs before
\* it calls the program, each sync sets every bound attribute to the
\* current value of its variable and reports every one of them in the
\* updates it returns; when reading fails it returns no updates and the
\* program is still called.
C33_SyncBeforeExecution ==
    [][(Invoking /\ program_info.variable_aware)
         => /\ SyncThenCall
            /\ ~session_context.failing
                 => \A a \in DOMAIN program.bindings :
                      /\ a \in DOMAIN updates'
                      /\ updates'[a] = Current(program, session_context, a)
      ]_vars

\* C33 amended: as above, the updates reporting the bound attributes whose
\* value changed, with their new value, and no other.
C33_SyncReportsChanges ==
    [][(Invoking /\ program_info.variable_aware)
         => /\ SyncThenCall
            /\ ~session_context.failing
                 => updates' = [a \in Changed(program, session_context)
                                  |-> Current(program, session_context, a)]
      ]_vars

\* C33 witness: the second execution of a program with both attributes
\* bound has used the temperature changed since the first one and
\* reported it alone.
C33_Witness ==
    /\ program_info.variable_aware
    /\ DOMAIN program.bindings = Attributes
    /\ invoked.count = 2
    /\ program_info.execution_count = 2
    /\ invoked.attrs["temperature"] = <<9>>
    /\ session_context.values["temperature"] = 9
    /\ DOMAIN updates = {"temperature"}
    /\ updates["temperature"] = 9

====
